---- MODULE Spec2Model ----
(***************************************************************************)
(* Lease rate-sheet analysis (ablair264/KMYC): the CSV row streamer, the   *)
(* column resolver, the scoring engines, the bounded top-K aggregator and  *)
(* the run orchestration of LexUpload.analyzeCsv and of the analyze-lease  *)
(* function handler.                                                       *)
(*                                                                         *)
(* A JavaScript string is modelled as the sequence of its characters, each *)
(* a one-character string, so that trimming, upper-casing, containment and *)
(* number parsing are computed, not assumed.                               *)
(***************************************************************************)
EXTENDS Integers, Sequences, FiniteSets, TLC

VARIABLES
    \* ---- streamCsvFile (LexUpload.js 5-66)
    text,        \* the file's content, one character per byte
    chunkSize,   \* options.chunkSize
    offset,      \* let offset
    inQuotes,    \* let inQuotes
    field,       \* let field
    row,         \* let row
    delivered,   \* the rows handed to onRow so far, in order
    progress,    \* the values handed to onProgress so far, in order
    spc,         \* where the streamer is: "idle", "reading", "yielded", "resolved", "rejected"
    \* ---- the column resolvers applied to one candidate header row
    headers,     \* the candidate header row: a sequence of cells
    idx,         \* buildColumnIndices(headers) of LexUpload.js, once resolved
    tempIndices, \* the handler's tempIndices for the same row, once resolved
    earlierIndices, \* the tempIndices of the function's earlier version, once resolved
    cpc,         \* "idle", "fresh", "resolved"
    \* ---- one vehicle scored by the three scoring functions
    vehicle,            \* the vehicle record, its fields the raw cells
    useInsuranceWeight, \* the checkbox of LexUpload
    numericCells,       \* whether the sheet reader hands numeric cells over as numbers
    lexOut,             \* what scoreVehicle returned, Null before the call
    calcOut,            \* calculateScore's frame at its return, Null before the call
    breakdownOut,       \* what computeScoreBreakdown returned, Null before the call
    scorepc,            \* "idle", "fresh"
    \* ---- one run of LexUpload.analyzeCsv (LexUpload.js 307-450)
    locals,      \* analyzeCsv's local variables: header, indices, the stats, the two heaps
    calls,       \* the calls made to onAnalysisStart, onAnalysisComplete and onError, in order
    results,     \* what onAnalysisComplete was called with, Null before
    parsing,     \* the parsing state of the component
    cancelled,   \* cancelledRef.current
    scored,      \* the vehicles handed to scoreVehicle in this run with their scores, best first
    runpc,       \* "idle", "ready", "streaming", "done", "failed"
    \* ---- one uploaded file, read by analyzeCsv or posted to the function
    sheet,       \* the lines of the file, each a sequence of cells
    cursor,      \* how many lines the streamer has come to
    response,    \* what the function returned, Null before
    \* ---- the page and the FlexibleUpload it renders
    page,        \* App's state: providerTab, analysisResults, loading, error
    upload,      \* FlexibleUpload's state: uploadState, fieldMappings, providerName, useDatabaseStorage
    parsepc,     \* onDrop awaiting parseFileAsync: "none", or "mounted"/"unmounted" as its component is
    proceedpc,   \* handleProceed awaiting processWithSupabase: "none", "mounted", "unmounted"
    flexpc,      \* handleFlexibleMappingComplete awaiting processFlexibleFile: "none", "reading"
    lexpc        \* an analysis started from the Lex tab: "none", "running"

streamVars == <<text, chunkSize, offset, inQuotes, field, row, delivered, progress, spc>>

colVars == <<headers, idx, tempIndices, earlierIndices, cpc>>

scoreVars == <<vehicle, useInsuranceWeight, numericCells, lexOut, calcOut, breakdownOut, scorepc>>

runVars == <<locals, calls, results, parsing, cancelled, scored, runpc>>

fileVars == <<sheet, cursor, response>>

pageVars == <<page, upload, parsepc, proceedpc, flexpc, lexpc>>

vars == <<streamVars, colVars, scoreVars, runVars, fileVars, pageVars>>

\* What each part of the model leaves alone
notStream == <<colVars, scoreVars, runVars, fileVars, pageVars>>

notCol == <<streamVars, scoreVars, runVars, fileVars, pageVars>>

notScore == <<streamVars, colVars, runVars, fileVars, pageVars>>

notRun == <<streamVars, colVars, scoreVars, fileVars, pageVars>>

notPage == <<streamVars, colVars, scoreVars, runVars, fileVars>>

-----------------------------------------------------------------------------
(* Generic helpers                                                         *)

Min(a, b) == IF a <= b THEN a ELSE b

Max(a, b) == IF a >= b THEN a ELSE b

\* s.slice(from, to) of a sequence, 0-based, end exclusive, clamped like Blob.slice
Slice(s, from, to) ==
    LET lo == Min(from, Len(s))
        hi == Min(to, Len(s))
    IN  IF hi <= lo THEN << >> ELSE SubSeq(s, lo + 1, hi)

-----------------------------------------------------------------------------
(* The row streamer: streamCsvFile                                         *)

\* Longest input text, in characters
MaxLen == 4

QUOTE == "\""

COMMA == ","

LF == "\n"

CR == "\r"

\* The characters an input text is made of: the four the parser treats
\* specially and one ordinary character
CsvChars == {QUOTE, COMMA, LF, CR, "a"}

RECURSIVE TextsOfLen(_)
TextsOfLen(n) ==
    IF n = 0 THEN { << >> }
    ELSE { Append(t, c) : t \in TextsOfLen(n - 1), c \in CsvChars }

Texts == UNION { TextsOfLen(n) : n \in 0..MaxLen }

\* text[i] with i 0-based; "undefined" past the end of the string
CharAt(t, i) == IF i < Len(t) THEN t[i + 1] ELSE "undefined"

\* if (row.length > 1 || (row.length === 1 && row[0] !== '')) onRow(row)
Deliverable(r) == Len(r) > 1 \/ (Len(r) = 1 /\ r[1] # << >>)

\* processText's for loop from index i on; st is the carried state
\* [inQuotes, field, row] together with the rows handed to onRow
RECURSIVE ProcessFrom(_, _, _)
ProcessFrom(t, i, st) ==
    IF i >= Len(t) THEN st
    ELSE
      LET c == CharAt(t, i) IN
      IF c = QUOTE THEN
          IF st.inQuotes /\ CharAt(t, i + 1) = QUOTE
          THEN ProcessFrom(t, i + 2, [st EXCEPT !.field = Append(@, QUOTE)])
          ELSE ProcessFrom(t, i + 1, [st EXCEPT !.inQuotes = ~@])
      ELSE IF c = COMMA /\ ~st.inQuotes THEN
          ProcessFrom(t, i + 1,
              [st EXCEPT !.row = Append(@, st.field), !.field = << >>])
      ELSE IF (c = LF \/ c = CR) /\ ~st.inQuotes THEN
          LET next == IF c = CR /\ CharAt(t, i + 1) = LF THEN i + 2 ELSE i + 1
              r    == Append(st.row, st.field)
          IN  ProcessFrom(t, next,
                  [st EXCEPT !.row = << >>, !.field = << >>,
                             !.out = IF Deliverable(r) THEN Append(@, r) ELSE @])
      ELSE ProcessFrom(t, i + 1, [st EXCEPT !.field = Append(@, c)])

processText(t, st) == ProcessFrom(t, 0, st)

FlushUnguarded(st) ==
    [st EXCEPT !.out = Append(@, Append(st.row, st.field)), !.row = << >>, !.field = << >>]

\* "flush last field/row" of reader.onload
Flush(st) ==
    IF Len(st.field) > 0 \/ Len(st.row) > 0
    THEN [st EXCEPT !.out = Append(@, Append(st.row, st.field)),
                    !.row = << >>, !.field = << >>]
    ELSE st

\* Math.min(100, Math.round((offset / file.size) * 100)); a division by a
\* size of 0 gives Infinity, so 100
ProgressOf(off, size) ==
    IF size = 0 THEN 100 ELSE Min(100, (200 * off + size) \div (2 * size))

StreamInit ==
    /\ text \in Texts
    /\ chunkSize \in 1..(MaxLen + 1)
    /\ offset = 0
    /\ inQuotes = FALSE
    /\ field = << >>
    /\ row = << >>
    /\ delivered = << >>
    /\ progress = << >>
    /\ spc = "reading"

OnLoadWithoutYield ==
    /\ spc = "reading"
    /\ LET t   == Slice(text, offset, offset + chunkSize)
           st0 == [inQuotes |-> inQuotes, field |-> field, row |-> row, out |-> delivered]
           st1 == processText(t, st0)
           off == offset + chunkSize
           st2 == IF off < Len(text) THEN st1 ELSE Flush(st1)
       IN  /\ offset' = off
           /\ progress' = Append(progress, ProgressOf(off, Len(text)))
           /\ inQuotes' = st2.inQuotes
           /\ field' = st2.field
           /\ row' = st2.row
           /\ delivered' = st2.out
           /\ spc' = IF off < Len(text) THEN "reading" ELSE "resolved"
    /\ UNCHANGED <<text, chunkSize>>
    /\ UNCHANGED notStream

\* reader.onload: the whole handler, from the text of the slice that was
\* read to the scheduling of the next read or the flush and resolve
OnLoad ==
    /\ spc = "reading"
    /\ LET t   == Slice(text, offset, offset + chunkSize)
           st0 == [inQuotes |-> inQuotes, field |-> field, row |-> row, out |-> delivered]
           st1 == processText(t, st0)
           off == offset + chunkSize
           st2 == IF off < Len(text) THEN st1 ELSE Flush(st1)
       IN  /\ offset' = off
           /\ progress' = Append(progress, ProgressOf(off, Len(text)))
           /\ inQuotes' = st2.inQuotes
           /\ field' = st2.field
           /\ row' = st2.row
           /\ delivered' = st2.out
           /\ spc' = IF off < Len(text) THEN "yielded" ELSE "resolved"
    /\ UNCHANGED <<text, chunkSize>>
    /\ UNCHANGED notStream

\* the timer set by setTimeout(readNext, 0) fires: the next slice is read
ReadNext ==
    /\ spc = "yielded"
    /\ spc' = "reading"
    /\ UNCHANGED <<text, chunkSize, offset, inQuotes, field, row, delivered, progress>>
    /\ UNCHANGED notStream

\* reader.onerror: the read of the current slice fails
OnReadError ==
    /\ spc = "reading"
    /\ spc' = "rejected"
    /\ UNCHANGED <<text, chunkSize, offset, inQuotes, field, row, delivered, progress>>
    /\ UNCHANGED notStream

StreamNext == OnLoad \/ ReadNext \/ OnReadError

-----------------------------------------------------------------------------
(* Strings                                                                 *)

LowerLetters == <<"a","b","c","d","e","f","g","h","i","j","k","l","m","n","o","p","q","r","s","t","u","v","w","x","y","z">>

UpperLetters == <<"A","B","C","D","E","F","G","H","I","J","K","L","M","N","O","P","Q","R","S","T","U","V","W","X","Y","Z">>

UpperChar(c) ==
    IF \E i \in 1..26 : LowerLetters[i] = c
    THEN UpperLetters[CHOOSE i \in 1..26 : LowerLetters[i] = c]
    ELSE c

\* String.prototype.toUpperCase
toUpperCase(s) == [i \in 1..Len(s) |-> UpperChar(s[i])]

WhiteSpace == {" ", "\t", "\n", "\r"}

\* String.prototype.trim
trim(s) ==
    LET keep == {i \in 1..Len(s) : s[i] \notin WhiteSpace}
    IN  IF keep = {} THEN << >>
        ELSE SubSeq(s, CHOOSE i \in keep : \A j \in keep : i <= j,
                       CHOOSE i \in keep : \A j \in keep : i >= j)

\* String.prototype.includes
includes(h, key) ==
    \/ key = << >>
    \/ \E s \in 0..(Len(h) - Len(key)) :
          h[s + 1] = key[1] /\ SubSeq(h, s + 1, s + Len(key)) = key

\* Array.prototype.findIndex, given the (1-based) positions that pass its
\* test: the first of them, 0-based, or -1 when none passes
FindIndex(hit) ==
    IF hit = {} THEN -1 ELSE (CHOOSE i \in hit : \A j \in hit : i <= j) - 1

-----------------------------------------------------------------------------
(* The column resolver of LexUpload.js                                     *)

\* COLUMN_MAPPINGS of LexUpload.js, each synonym a string, in the source's order
COLUMN_MAPPINGS ==
    [ manufacturer |-> <<
          <<"M","A","N","U","F","A","C","T","U","R","E","R">>,  \* MANUFACTURER
          <<"M","A","K","E">>,  \* MAKE
          <<"B","R","A","N","D">>  \* BRAND
      >>,
      model |-> <<
          <<"V","A","R","I","A","N","T">>,  \* VARIANT
          <<"V","E","H","I","C","L","E"," ","D","E","S","C","R","I","P","T","I","O","N">>,  \* VEHICLE DESCRIPTION
          <<"D","E","R","I","V","A","T","I","V","E">>,  \* DERIVATIVE
          <<"M","O","D","E","L">>,  \* MODEL
          <<"D","E","S","C","R","I","P","T","I","O","N">>,  \* DESCRIPTION
          <<"V","E","H","I","C","L","E">>,  \* VEHICLE
          <<"G","R","A","D","E">>  \* GRADE
      >>,
      term |-> <<
          <<"T","E","R","M">>,  \* TERM
          <<"M","O","N","T","H","S">>,  \* MONTHS
          <<"C","O","N","T","R","A","C","T"," ","L","E","N","G","T","H">>,  \* CONTRACT LENGTH
          <<"T","E","R","M"," ","(","M","O","N","T","H","S",")">>,  \* TERM (MONTHS)
          <<"T","E","R","M"," ","(","M","T","H","S",")">>  \* TERM (MTHS)
      >>,
      mileage |-> <<
          <<"A","N","N","U","A","L","_","M","I","L","E","A","G","E">>,  \* ANNUAL_MILEAGE
          <<"A","N","N","U","A","L"," ","M","I","L","E","A","G","E">>,  \* ANNUAL MILEAGE
          <<"M","I","L","E","A","G","E">>,  \* MILEAGE
          <<"M","I","L","E","A","G","E"," ","A","L","L","O","W","A","N","C","E">>,  \* MILEAGE ALLOWANCE
          <<"M","I","L","E","S"," ","P","E","R"," ","A","N","N","U","M">>,  \* MILES PER ANNUM
          <<"P",".","A","."," ","M","I","L","E","A","G","E">>  \* P.A. MILEAGE
      >>,
      p11d |-> <<
          <<"P","1","1","D">>,  \* P11D
          <<"P","1","1","D"," ","P","R","I","C","E">>,  \* P11D PRICE
          <<"P","1","1","D"," ","V","A","L","U","E">>,  \* P11D VALUE
          <<"L","I","S","T"," ","P","R","I","C","E"," ","(","P","1","1","D",")">>,  \* LIST PRICE (P11D)
          <<"L","I","S","T"," ","P","R","I","C","E">>,  \* LIST PRICE
          <<"R","R","P">>,  \* RRP
          <<"M","R","P">>  \* MRP
      >>,
      otr |-> <<
          <<"O","T","R">>,  \* OTR
          <<"O","T","R"," ","P","R","I","C","E">>,  \* OTR PRICE
          <<"O","N"," ","T","H","E"," ","R","O","A","D">>,  \* ON THE ROAD
          <<"O","N"," ","T","H","E"," ","R","O","A","D"," ","P","R","I","C","E">>,  \* ON THE ROAD PRICE
          <<"O","T","R"," ","(","I","N","C"," ","M","E","T","A","L","L","I","C",")">>,  \* OTR (INC METALLIC)
          <<"O","T","R"," ","(","I","N","C","L","U","D","I","N","G"," ","M","E","T","A","L","L","I","C",")">>,  \* OTR (INCLUDING METALLIC)
          <<"O","T","R"," ","P","R","I","C","E"," ","(","I","N","C"," ","P","A","I","N","T",")">>,  \* OTR PRICE (INC PAINT)
          <<"R","E","T","A","I","L"," ","O","T","R">>  \* RETAIL OTR
      >>,
      co2 |-> <<
          <<"C","O","2","_","G","_","P","E","R","_","K","M">>,  \* CO2_G_PER_KM
          <<"C","O","2"," ","G"," ","P","E","R"," ","K","M">>,  \* CO2 G PER KM
          <<"C","O","2">>,  \* CO2
          <<"C","O","2"," ","E","M","I","S","S","I","O","N","S">>,  \* CO2 EMISSIONS
          <<"E","M","I","S","S","I","O","N","S">>,  \* EMISSIONS
          <<"C","O","2"," ","G","/","K","M">>,  \* CO2 G/KM
          <<"C","O","2"," ","(","G","/","K","M",")">>  \* CO2 (G/KM)
      >>,
      mpg |-> <<
          <<"F","U","E","L","_","E","C","O","_","C","O","M","B","I","N","E","D">>,  \* FUEL_ECO_COMBINED
          <<"F","U","E","L"," ","E","C","O"," ","C","O","M","B","I","N","E","D">>,  \* FUEL ECO COMBINED
          <<"M","P","G"," ","C","O","M","B","I","N","E","D">>,  \* MPG COMBINED
          <<"M","P","G">>,  \* MPG
          <<"F","U","E","L"," ","E","C","O","N","O","M","Y">>,  \* FUEL ECONOMY
          <<"C","O","M","B","I","N","E","D"," ","M","P","G">>,  \* COMBINED MPG
          <<"W","L","T","P"," ","M","P","G">>,  \* WLTP MPG
          <<"M","P","G"," ","(","W","L","T","P",")">>  \* MPG (WLTP)
      >>,
      fuel_type |-> <<
          <<"F","U","E","L","_","T","Y","P","E">>,  \* FUEL_TYPE
          <<"F","U","E","L"," ","T","Y","P","E">>,  \* FUEL TYPE
          <<"F","U","E","L","T","Y","P","E">>,  \* FUELTYPE
          <<"F","U","E","L">>  \* FUEL
      >>,
      miles_per_kwh |-> <<
          <<"M","I","L","E","S","/","K","W","H">>,  \* MILES/KWH
          <<"M","I","/","K","W","H">>,  \* MI/KWH
          <<"M","I","L","E","S"," ","P","E","R"," ","K","W","H">>,  \* MILES PER KWH
          <<"M","I","L","E","S"," ","P","E","R"," ","K","W","H"," ","(","M","I","/","K","W","H",")">>  \* MILES PER KWH (MI/KWH)
      >>,
      kwh_per_100km |-> <<
          <<"K","W","H","/","1","0","0","K","M">>,  \* KWH/100KM
          <<"K","W","H","/","1","0","0"," ","K","M">>,  \* KWH/100 KM
          <<"C","O","N","S","U","M","P","T","I","O","N"," ","K","W","H","/","1","0","0","K","M">>,  \* CONSUMPTION KWH/100KM
          <<"K","W","H","_","P","E","R","_","1","0","0","K","M">>,  \* KWH_PER_100KM
          <<"K","W","H"," ","/"," ","1","0","0","K","M">>  \* KWH / 100KM
      >>,
      electric_range |-> <<
          <<"W","L","T","P","_","P","U","R","E","_","E","V","_","R","A","N","G","E","_","_","M","I","L","E","S","_">>,  \* WLTP_PURE_EV_RANGE__MILES_
          <<"W","L","T","P"," ","P","U","R","E"," ","E","V"," ","R","A","N","G","E"," ","M","I","L","E","S">>,  \* WLTP PURE EV RANGE MILES
          <<"W","L","T","P","_","E","A","E","R","_","_","M","I","L","E","S">>,  \* WLTP_EAER__MILES
          <<"W","L","T","P"," ","E","A","E","R"," ","M","I","L","E","S">>,  \* WLTP EAER MILES
          <<"E","A","E","R">>,  \* EAER
          <<"E","L","E","C","T","R","I","C"," ","R","A","N","G","E">>,  \* ELECTRIC RANGE
          <<"E","V"," ","R","A","N","G","E">>,  \* EV RANGE
          <<"Z","E","R","O"," ","E","M","I","S","S","I","O","N"," ","R","A","N","G","E"," ","(","E","A","E","R",")">>,  \* ZERO EMISSION RANGE (EAER)
          <<"E","A","E","R"," ","(","M","I",")">>,  \* EAER (MI)
          <<"E","A","E","R"," ","M","I","L","E","S">>  \* EAER MILES
      >>,
      monthly_cm |-> <<
          <<"R","E","N","T","A","L">>,  \* RENTAL
          <<"L","E","A","S","E","_","R","E","N","T","A","L">>,  \* LEASE_RENTAL
          <<"L","E","A","S","E"," ","R","E","N","T","A","L">>,  \* LEASE RENTAL
          <<"N","E","T"," ","R","E","N","T","A","L"," ","C","M">>,  \* NET RENTAL CM
          <<"N","E","T"," ","R","E","N","T","A","L"," ","(","C","M",")">>,  \* NET RENTAL (CM)
          <<"N","E","T"," ","R","E","N","T","A","L"," ","-"," ","C","M">>,  \* NET RENTAL - CM
          <<"C","U","S","T","O","M","E","R"," ","M","O","N","T","H","L","Y">>,  \* CUSTOMER MONTHLY
          <<"C","U","S","T","O","M","E","R"," ","R","E","N","T","A","L">>,  \* CUSTOMER RENTAL
          <<"C","U","S","T","O","M","E","R"," ","M","O","N","T","H","L","Y"," ","R","E","N","T","A","L">>,  \* CUSTOMER MONTHLY RENTAL
          <<"N","E","T"," ","C","U","S","T","O","M","E","R"," ","R","E","N","T","A","L">>,  \* NET CUSTOMER RENTAL
          <<"D","R","I","V","E","R"," ","M","O","N","T","H","L","Y">>,  \* DRIVER MONTHLY
          <<"D","R","I","V","E","R"," ","R","E","N","T","A","L">>,  \* DRIVER RENTAL
          <<"C","U","S","T","O","M","E","R"," ","R","E","N","T","A","L"," ","E","X"," ","V","A","T">>,  \* CUSTOMER RENTAL EX VAT
          <<"C","U","S","T","O","M","E","R"," ","R","E","N","T","A","L"," ","E","X","C"," ","V","A","T">>,  \* CUSTOMER RENTAL EXC VAT
          <<"C","U","S","T","O","M","E","R"," ","R","E","N","T","A","L"," ","E","X","C","L"," ","V","A","T">>,  \* CUSTOMER RENTAL EXCL VAT
          <<"C","U","S","T","O","M","E","R"," ","M","O","N","T","H","L","Y"," ","E","X"," ","V","A","T">>,  \* CUSTOMER MONTHLY EX VAT
          <<"C","U","S","T","O","M","E","R"," ","M","O","N","T","H","L","Y"," ","E","X","C"," ","V","A","T">>,  \* CUSTOMER MONTHLY EXC VAT
          <<"C","U","S","T","O","M","E","R"," ","M","O","N","T","H","L","Y"," ","E","X","C","L"," ","V","A","T">>,  \* CUSTOMER MONTHLY EXCL VAT
          <<"C","M"," ","E","X"," ","V","A","T">>,  \* CM EX VAT
          <<"C","M"," ","E","X","C"," ","V","A","T">>,  \* CM EXC VAT
          <<"C","M"," ","E","X","C","L"," ","V","A","T">>,  \* CM EXCL VAT
          <<"N","E","T"," ","R","E","N","T","A","L"," ","C","M"," ","E","X"," ","V","A","T">>,  \* NET RENTAL CM EX VAT
          <<"N","E","T"," ","R","E","N","T","A","L"," ","(","C","M",")"," ","E","X"," ","V","A","T">>,  \* NET RENTAL (CM) EX VAT
          <<"M","O","N","T","H","L","Y"," ","R","E","N","T","A","L">>,  \* MONTHLY RENTAL
          <<"M","O","N","T","H","L","Y"," ","R","E","N","T","A","L"," ","E","X"," ","V","A","T">>,  \* MONTHLY RENTAL EX VAT
          <<"M","O","N","T","H","L","Y"," ","P","A","Y","M","E","N","T">>,  \* MONTHLY PAYMENT
          <<"P","A","Y","M","E","N","T">>,  \* PAYMENT
          <<"R","E","N","T","A","L"," ","E","X"," ","V","A","T">>,  \* RENTAL EX VAT
          <<"R","E","N","T","A","L"," ","E","X","C"," ","V","A","T">>,  \* RENTAL EXC VAT
          <<"R","E","N","T","A","L"," ","E","X","C","L"," ","V","A","T">>,  \* RENTAL EXCL VAT
          <<"3"," ","+"," ","R","E","N","T","A","L"," ","E","X"," ","V","A","T">>,  \* 3 + RENTAL EX VAT
          <<"3","+","R","E","N","T","A","L">>  \* 3+RENTAL
      >>,
      monthly_wm |-> <<
          <<"N","E","T"," ","R","E","N","T","A","L"," ","W","M">>,  \* NET RENTAL WM
          <<"W","M">>,  \* WM
          <<"W","H","O","L","E","S","A","L","E"," ","M","O","N","T","H","L","Y">>,  \* WHOLESALE MONTHLY
          <<"W","H","O","L","E","S","A","L","E"," ","R","E","N","T","A","L">>,  \* WHOLESALE RENTAL
          <<"S","U","P","P","L","I","E","R"," ","R","E","N","T","A","L">>,  \* SUPPLIER RENTAL
          <<"S","U","P","P","L","I","E","R"," ","M","O","N","T","H","L","Y">>,  \* SUPPLIER MONTHLY
          <<"B","2","B"," ","R","E","N","T","A","L">>,  \* B2B RENTAL
          <<"W","M"," ","R","E","N","T","A","L">>,  \* WM RENTAL
          <<"B","U","S","I","N","E","S","S"," ","R","E","N","T","A","L">>  \* BUSINESS RENTAL
      >>,
      upfront |-> <<
          <<"U","P","F","R","O","N","T">>,  \* UPFRONT
          <<"U","P"," ","F","R","O","N","T">>,  \* UP FRONT
          <<"I","N","I","T","I","A","L"," ","P","A","Y","M","E","N","T">>,  \* INITIAL PAYMENT
          <<"D","E","P","O","S","I","T">>,  \* DEPOSIT
          <<"I","N","I","T","I","A","L"," ","R","E","N","T","A","L">>  \* INITIAL RENTAL
      >>,
      insurance_group |-> <<
          <<"I","N","S","U","R","A","N","C","E"," ","G","R","O","U","P">>,  \* INSURANCE GROUP
          <<"I","N","S","U","R","A","N","C","E">>,  \* INSURANCE
          <<"I","N","S"," ","G","R","P">>  \* INS GRP
      >> ]

\* COLUMN_MAPPINGS of the analyze-lease function, in the source's order
HANDLER_COLUMN_MAPPINGS ==
    [ manufacturer |-> <<
          <<"M","A","N","U","F","A","C","T","U","R","E","R">>,  \* MANUFACTURER
          <<"M","A","K","E">>,  \* MAKE
          <<"B","R","A","N","D">>  \* BRAND
      >>,
      model |-> <<
          <<"V","E","H","I","C","L","E"," ","D","E","S","C","R","I","P","T","I","O","N">>,  \* VEHICLE DESCRIPTION
          <<"M","O","D","E","L">>,  \* MODEL
          <<"D","E","S","C","R","I","P","T","I","O","N">>,  \* DESCRIPTION
          <<"V","E","H","I","C","L","E">>,  \* VEHICLE
          <<"D","E","R","I","V","A","T","I","V","E">>  \* DERIVATIVE
      >>,
      monthly_payment |-> <<
          <<"N","E","T"," ","R","E","N","T","A","L"," ","C","M">>,  \* NET RENTAL CM
          <<"N","E","T"," ","R","E","N","T","A","L"," ","(","C","M",")">>,  \* NET RENTAL (CM)
          <<"N","E","T"," ","R","E","N","T","A","L"," ","-"," ","C","M">>,  \* NET RENTAL - CM
          <<"N","E","T"," ","R","E","N","T","A","L"," ","C","M"," ","E","X"," ","V","A","T">>,  \* NET RENTAL CM EX VAT
          <<"N","E","T"," ","R","E","N","T","A","L"," ","(","C","M",")"," ","E","X"," ","V","A","T">>,  \* NET RENTAL (CM) EX VAT
          <<"C","U","S","T","O","M","E","R"," ","M","O","N","T","H","L","Y">>,  \* CUSTOMER MONTHLY
          <<"C","U","S","T","O","M","E","R"," ","R","E","N","T","A","L">>,  \* CUSTOMER RENTAL
          <<"C","U","S","T","O","M","E","R"," ","M","O","N","T","H","L","Y"," ","R","E","N","T","A","L">>,  \* CUSTOMER MONTHLY RENTAL
          <<"N","E","T"," ","C","U","S","T","O","M","E","R"," ","R","E","N","T","A","L">>,  \* NET CUSTOMER RENTAL
          <<"D","R","I","V","E","R"," ","M","O","N","T","H","L","Y">>,  \* DRIVER MONTHLY
          <<"D","R","I","V","E","R"," ","R","E","N","T","A","L">>,  \* DRIVER RENTAL
          <<"C","U","S","T","O","M","E","R"," ","R","E","N","T","A","L"," ","E","X"," ","V","A","T">>,  \* CUSTOMER RENTAL EX VAT
          <<"C","U","S","T","O","M","E","R"," ","R","E","N","T","A","L"," ","E","X","C"," ","V","A","T">>,  \* CUSTOMER RENTAL EXC VAT
          <<"C","U","S","T","O","M","E","R"," ","R","E","N","T","A","L"," ","E","X","C","L"," ","V","A","T">>,  \* CUSTOMER RENTAL EXCL VAT
          <<"C","U","S","T","O","M","E","R"," ","M","O","N","T","H","L","Y"," ","E","X"," ","V","A","T">>,  \* CUSTOMER MONTHLY EX VAT
          <<"C","U","S","T","O","M","E","R"," ","M","O","N","T","H","L","Y"," ","E","X","C"," ","V","A","T">>,  \* CUSTOMER MONTHLY EXC VAT
          <<"C","U","S","T","O","M","E","R"," ","M","O","N","T","H","L","Y"," ","E","X","C","L"," ","V","A","T">>,  \* CUSTOMER MONTHLY EXCL VAT
          <<"C","M"," ","E","X"," ","V","A","T">>,  \* CM EX VAT
          <<"C","M"," ","E","X","C"," ","V","A","T">>,  \* CM EXC VAT
          <<"C","M"," ","E","X","C","L"," ","V","A","T">>,  \* CM EXCL VAT
          <<"M","O","N","T","H","L","Y"," ","R","E","N","T","A","L">>,  \* MONTHLY RENTAL
          <<"M","O","N","T","H","L","Y"," ","R","E","N","T","A","L"," ","E","X"," ","V","A","T">>,  \* MONTHLY RENTAL EX VAT
          <<"M","O","N","T","H","L","Y"," ","P","A","Y","M","E","N","T">>,  \* MONTHLY PAYMENT
          <<"P","A","Y","M","E","N","T">>,  \* PAYMENT
          <<"R","E","N","T","A","L"," ","E","X"," ","V","A","T">>,  \* RENTAL EX VAT
          <<"R","E","N","T","A","L"," ","E","X","C"," ","V","A","T">>,  \* RENTAL EXC VAT
          <<"R","E","N","T","A","L"," ","E","X","C","L"," ","V","A","T">>,  \* RENTAL EXCL VAT
          <<"3"," ","+"," ","R","E","N","T","A","L"," ","E","X"," ","V","A","T">>,  \* 3 + RENTAL EX VAT
          <<"3","+","R","E","N","T","A","L">>,  \* 3+RENTAL
          <<"L","E","A","S","E"," ","P","A","Y","M","E","N","T">>,  \* LEASE PAYMENT
          <<"M","O","N","T","H","L","Y"," ","C","O","S","T">>  \* MONTHLY COST
      >>,
      p11d |-> <<
          <<"P","1","1","D">>,  \* P11D
          <<"M","S","R","P">>,  \* MSRP
          <<"L","I","S","T"," ","P","R","I","C","E">>,  \* LIST PRICE
          <<"R","R","P">>,  \* RRP
          <<"P","R","I","C","E">>,  \* PRICE
          <<"L","I","S","T">>  \* LIST
      >>,
      otr_price |-> <<
          <<"O","T","R"," ","P","R","I","C","E">>,  \* OTR PRICE
          <<"O","T","R">>,  \* OTR
          <<"O","N"," ","T","H","E"," ","R","O","A","D">>,  \* ON THE ROAD
          <<"T","O","T","A","L"," ","P","R","I","C","E">>  \* TOTAL PRICE
      >>,
      mpg |-> <<
          <<"M","P","G">>,  \* MPG
          <<"F","U","E","L"," ","E","C","O","N","O","M","Y">>,  \* FUEL ECONOMY
          <<"M","I","L","E","S"," ","P","E","R"," ","G","A","L","L","O","N">>,  \* MILES PER GALLON
          <<"M","P","G"," ","C","O","M","B","I","N","E","D">>  \* MPG COMBINED
      >>,
      co2 |-> <<
          <<"C","O","2">>,  \* CO2
          <<"E","M","I","S","S","I","O","N","S">>,  \* EMISSIONS
          <<"C","O","2"," ","E","M","I","S","S","I","O","N","S">>,  \* CO2 EMISSIONS
          <<"C","A","R","B","O","N">>  \* CARBON
      >>,
      insurance_group |-> <<
          <<"I","N","S","U","R","A","N","C","E"," ","G","R","O","U","P">>,  \* INSURANCE GROUP
          <<"I","N","S","U","R","A","N","C","E">>,  \* INSURANCE
          <<"I","N","S"," ","G","R","P">>  \* INS GRP
      >>,
      cap_id |-> <<
          <<"C","A","P"," ","I","D">>,  \* CAP ID
          <<"C","A","P">>,  \* CAP
          <<"C","A","P","I","D">>,  \* CAPID
          <<"C","A","P"," ","C","O","D","E">>  \* CAP CODE
      >>,
      term |-> <<
          <<"T","E","R","M">>,  \* TERM
          <<"M","O","N","T","H","S">>,  \* MONTHS
          <<"C","O","N","T","R","A","C","T"," ","L","E","N","G","T","H">>  \* CONTRACT LENGTH
      >>,
      mileage |-> <<
          <<"M","I","L","E","A","G","E">>,  \* MILEAGE
          <<"A","N","N","U","A","L"," ","M","I","L","E","A","G","E">>,  \* ANNUAL MILEAGE
          <<"A","N","N","U","A","L","_","M","I","L","E","A","G","E">>,  \* ANNUAL_MILEAGE
          <<"M","I","L","E","S">>,  \* MILES
          <<"M","I","L","E","A","G","E"," ","A","L","L","O","W","A","N","C","E">>  \* MILEAGE ALLOWANCE
      >>,
      upfront |-> <<
          <<"U","P"," ","F","R","O","N","T">>,  \* UP FRONT
          <<"U","P","F","R","O","N","T">>,  \* UPFRONT
          <<"I","N","I","T","I","A","L"," ","P","A","Y","M","E","N","T">>,  \* INITIAL PAYMENT
          <<"D","E","P","O","S","I","T">>  \* DEPOSIT
      >> ]

\* headers.map(h => (h ? String(h).toUpperCase().trim() : ''))
Normalized(hs) == [i \in 1..Len(hs) |-> IF hs[i] = << >> THEN << >> ELSE trim(toUpperCase(hs[i]))]

\* normalized.forEach((h, i) => { if (h) map[h] = i; }): the index a key maps
\* to is that of the last cell equal to it; -1 when the map has no such key
MapIndex(normalized, key) ==
    LET hit == {i \in 1..Len(normalized) : normalized[i] # << >> /\ normalized[i] = key}
    IN  IF hit = {} THEN -1 ELSE (CHOOSE i \in hit : \A j \in hit : i >= j) - 1

\* "1) Exact match": the first name, in the list's order, that is a key of the map
RECURSIVE ExactMatch(_, _, _)
ExactMatch(normalized, names, n) ==
    IF n > Len(names) THEN -1
    ELSE LET i == MapIndex(normalized, trim(toUpperCase(names[n])))
         IN  IF i # -1 THEN i ELSE ExactMatch(normalized, names, n + 1)

\* "2) Fuzzy contains match": the first name, in the list's order, that some
\* cell contains, at the first such cell
RECURSIVE FuzzyMatch(_, _, _)
FuzzyMatch(normalized, names, n) ==
    IF n > Len(names) THEN -1
    ELSE LET key == trim(toUpperCase(names[n]))
             i   == FindIndex({c \in 1..Len(normalized) : includes(normalized[c], key)})
         IN  IF i # -1 THEN i ELSE FuzzyMatch(normalized, names, n + 1)

\* A resolver that tries containment before equality
findColumnIndexFuzzyFirst(hs, names) ==
    LET normalized == Normalized(hs)
        f == FuzzyMatch(normalized, names, 1)
    IN  IF f # -1 THEN f ELSE ExactMatch(normalized, names, 1)

findColumnIndex(hs, names) ==
    LET normalized == Normalized(hs)
        e == ExactMatch(normalized, names, 1)
    IN  IF e # -1 THEN e ELSE FuzzyMatch(normalized, names, 1)

S_RENTAL == <<"R","E","N","T","A","L">>

S_MONTHLY == <<"M","O","N","T","H","L","Y">>

S_CUSTOMER == <<"C","U","S","T","O","M","E","R">>

S_DRIVER == <<"D","R","I","V","E","R">>

S_CM == <<"C","M">>

S_WHOLESALE == <<"W","H","O","L","E","S","A","L","E">>

S_WM == <<"W","M">>

S_SUPPLIER == <<"S","U","P","P","L","I","E","R">>

\* rentalCandidates ... .filter(({ h }) => h.includes('RENTAL') || h.includes('MONTHLY'))
IsRentalCandidate(h) == includes(h, S_RENTAL) \/ includes(h, S_MONTHLY)

\* the test of rentalCandidates.find: looks like customer/driver, not wholesale
IsPreferred(h) ==
    /\ includes(h, S_CUSTOMER) \/ includes(h, S_DRIVER) \/ includes(h, S_CM) \/ includes(h, S_MONTHLY)
    /\ ~(includes(h, S_WHOLESALE) \/ includes(h, S_WM) \/ includes(h, S_SUPPLIER))

\* The index maps are functions from the resolved keys to 0-based columns;
\* a key outside the DOMAIN is `undefined`
Has(m, k) == k \in DOMAIN m

buildColumnIndices(hs) ==
    LET found == [k \in DOMAIN COLUMN_MAPPINGS |-> findColumnIndex(hs, COLUMN_MAPPINGS[k])]
        base  == [k \in {k \in DOMAIN COLUMN_MAPPINGS : found[k] # -1} |-> found[k]]
        normalized == Normalized(hs)
        candidates == {c \in 1..Len(normalized) : IsRentalCandidate(normalized[c])}
        preferred == FindIndex({c \in candidates : IsPreferred(normalized[c])})
        first     == FindIndex(candidates)
        guess == IF preferred # -1 THEN preferred ELSE first
    IN  IF ~Has(base, "monthly_cm") /\ ~Has(base, "monthly_wm") /\ guess # -1
        THEN [k \in DOMAIN base \cup {"monthly_cm"} |->
                 IF k = "monthly_cm" THEN guess ELSE base[k]]
        ELSE base

-----------------------------------------------------------------------------
(* The column resolver of the analyze-lease function                       *)

\* headers.map(h => (h && typeof h === 'string') ? h.toUpperCase().trim() : '')
findColumn(hs, possibleNames) ==
    LET normalized == Normalized(hs)
        e == ExactMatch(normalized, possibleNames, 1)
    IN  IF e # -1 THEN e ELSE FuzzyMatch(normalized, possibleNames, 1)

\* for (const [key, possibleNames] of Object.entries(COLUMN_MAPPINGS)) ...
TempIndices(hs) ==
    LET found == [k \in DOMAIN HANDLER_COLUMN_MAPPINGS |-> findColumn(hs, HANDLER_COLUMN_MAPPINGS[k])]
    IN  [k \in {k \in DOMAIN HANDLER_COLUMN_MAPPINGS : found[k] # -1} |-> found[k]]

\* part_002 51-56 of the function's earlier version: the first name, in the
\* list's order, whose entry in headerMap is truthy. An entry of 0 is not.
RECURSIVE TruthyMatch(_, _, _)
TruthyMatch(normalized, names, n) ==
    IF n > Len(names) THEN -1
    ELSE LET i == MapIndex(normalized, trim(toUpperCase(names[n])))
         IN  IF i > 0 THEN i ELSE TruthyMatch(normalized, names, n + 1)

\* function findColumn(headers, possibleNames) of the earlier version
\* (part_002 43-58): the map is built as in the later one, and there is no
\* second pass
findColumnEarlier(hs, possibleNames) == TruthyMatch(Normalized(hs), possibleNames, 1)

\* The keys whose names are the same in the earlier COLUMN_MAPPINGS
\* (part_002 12-28) as in the later one
EarlierKeys == {"manufacturer", "model", "p11d", "otr_price", "co2"}

\* the earlier handler's loop over COLUMN_MAPPINGS (part_002 252-257)
EarlierIndices(hs) ==
    LET found == [k \in EarlierKeys |-> findColumnEarlier(hs, HANDLER_COLUMN_MAPPINGS[k])]
    IN  [k \in {k \in EarlierKeys : found[k] # -1} |-> found[k]]

-----------------------------------------------------------------------------
(* Resolving one candidate header row with the resolvers                   *)

\* Most cells of a candidate header row
MaxCols == 3

H_NET_RENTAL_CM == <<"N","E","T"," ","R","E","N","T","A","L"," ","C","M">>

H_net_rental_wm == <<" ","n","e","t"," ","r","e","n","t","a","l"," ","w","m"," ">>

H_MANUFACTURER == <<"M","A","N","U","F","A","C","T","U","R","E","R">>

H_Model == <<"M","o","d","e","l">>

\* The cells a candidate header row is made of: the customer and the
\* wholesale rental (the latter in lower case with spaces around it), the
\* bare RENTAL, two identity columns and an empty cell
HeaderCells == {H_NET_RENTAL_CM, H_net_rental_wm, S_RENTAL, H_MANUFACTURER, H_Model, << >>}

RECURSIVE RowsOfLen(_, _)
RowsOfLen(cells, n) ==
    IF n = 0 THEN { << >> }
    ELSE { Append(r, c) : r \in RowsOfLen(cells, n - 1), c \in cells }

ColInit ==
    /\ headers \in UNION { RowsOfLen(HeaderCells, n) : n \in 1..MaxCols }
    /\ idx = << >>
    /\ tempIndices = << >>
    /\ earlierIndices = << >>
    /\ cpc = "fresh"

ColIdle ==
    /\ headers = << >>
    /\ idx = << >>
    /\ tempIndices = << >>
    /\ earlierIndices = << >>
    /\ cpc = "idle"

StreamIdle ==
    /\ text = << >>
    /\ chunkSize = 1
    /\ offset = 0
    /\ inQuotes = FALSE
    /\ field = << >>
    /\ row = << >>
    /\ delivered = << >>
    /\ progress = << >>
    /\ spc = "idle"

\* The row is resolved: buildColumnIndices(candidate) in onRow, and the
\* loop over COLUMN_MAPPINGS of the handler and of its earlier version
Resolve ==
    /\ cpc = "fresh"
    /\ idx' = buildColumnIndices(headers)
    /\ tempIndices' = TempIndices(headers)
    /\ earlierIndices' = EarlierIndices(headers)
    /\ cpc' = "resolved"
    /\ UNCHANGED headers
    /\ UNCHANGED notCol

ColNext == Resolve

-----------------------------------------------------------------------------
(* Numbers: a JavaScript number is held as an exact fraction n/d in lowest *)
(* terms                                                                   *)

Abs(a) == IF a < 0 THEN -a ELSE a

RECURSIVE Gcd(_, _)
Gcd(a, b) == IF b = 0 THEN a ELSE Gcd(b, a % b)

\* n/d divided through by g, the denominator made positive
Reduce(n, d, g) ==
    IF d < 0 THEN [n |-> -(n \div g), d |-> -(d \div g)]
    ELSE [n |-> n \div g, d |-> d \div g]

\* The fraction n/d (d # 0) in lowest terms with a positive denominator
Frac(n, d) == Reduce(n, d, Gcd(Abs(n), Abs(d)))

Num(k) == [n |-> k, d |-> 1]

Zero == Num(0)

\* a + b over the least common denominator, g the gcd of the denominators
AddOver(a, b, g) == Frac(a.n * (b.d \div g) + b.n * (a.d \div g), (a.d \div g) * b.d)

Add(a, b) == AddOver(a, b, Gcd(a.d, b.d))

Neg(a) == [n |-> -a.n, d |-> a.d]

Sub(a, b) == Add(a, Neg(b))

\* a * b, cancelled crosswise first: g1 = gcd(a.n, b.d), g2 = gcd(b.n, a.d)
MulOver(a, b, g1, g2) == Frac((a.n \div g1) * (b.n \div g2), (a.d \div g2) * (b.d \div g1))

Mul(a, b) == MulOver(a, b, Gcd(Abs(a.n), b.d), Gcd(Abs(b.n), a.d))

\* a / b for b # 0
Div(a, b) == Mul(a, Frac(b.d, b.n))

Lt(a, b) == a.n * b.d < b.n * a.d

Le(a, b) == a.n * b.d <= b.n * a.d

MinOf(a, b) == IF Le(a, b) THEN a ELSE b

MaxOf(a, b) == IF Le(a, b) THEN b ELSE a

\* Math.round: the nearest integer, a half rounded up
Round(a) == (2 * a.n + a.d) \div (2 * a.d)

\* Math.round(x * 10) / 10
Round1(a) == Frac(Round(Mul(a, Num(10))), 10)

-----------------------------------------------------------------------------
(* The value parsers                                                       *)

Digits == <<"0","1","2","3","4","5","6","7","8","9">>

IsDigit(c) == \E i \in 1..10 : Digits[i] = c

DigitValue(c) == (CHOOSE i \in 1..10 : Digits[i] = c) - 1

\* The end (1-based, inclusive) of the run of digits of s that starts at from
RECURSIVE DigitsEnd(_, _)
DigitsEnd(s, from) ==
    IF from <= Len(s) /\ IsDigit(s[from]) THEN DigitsEnd(s, from + 1) ELSE from - 1

RECURSIVE DigitsValue(_, _, _)
DigitsValue(s, from, to) ==
    IF to < from THEN 0 ELSE 10 * DigitsValue(s, from, to - 1) + DigitValue(s[to])

RECURSIVE Pow10(_)
Pow10(k) == IF k = 0 THEN 1 ELSE 10 * Pow10(k - 1)

NaN == [nan |-> TRUE]

IsNaN(x) == "nan" \in DOMAIN x

\* The number written by the digits start..intEnd of s, a point and the
\* digits up to fracEnd (fracEnd <= intEnd + 1 when there are none); NaN when
\* there is no digit at all
FloatOf(s, start, intEnd, fracEnd, places) ==
    IF (intEnd - start + 1) + places = 0 THEN NaN
    ELSE Frac(DigitsValue(s, start, intEnd) * Pow10(places)
                + DigitsValue(s, intEnd + 2, fracEnd), Pow10(places))

FloatAfterInt(s, start, intEnd, fracEnd) ==
    FloatOf(s, start, intEnd, fracEnd, Max(0, fracEnd - intEnd - 1))

\* The unsigned decimal literal that starts at start
UnsignedFrom(s, start, intEnd) ==
    FloatAfterInt(s, start, intEnd,
                  IF intEnd + 1 <= Len(s) /\ s[intEnd + 1] = "."
                  THEN DigitsEnd(s, intEnd + 2) ELSE intEnd)

Unsigned(s, start) == UnsignedFrom(s, start, DigitsEnd(s, start))

Negated(x) == IF IsNaN(x) THEN x ELSE Neg(x)

\* parseFloat of a string without leading white space: the longest prefix
\* that is a decimal literal (sign, digits, a point, digits), NaN when that
\* prefix holds no digit. Exponents and Infinity are not read.
parseFloat(s) ==
    IF Len(s) >= 1 /\ s[1] = "-" THEN Negated(Unsigned(s, 2))
    ELSE IF Len(s) >= 1 /\ s[1] = "+" THEN Unsigned(s, 2)
    ELSE Unsigned(s, 1)

\* isNaN(n) ? 0 : n
OrZero(n) == IF IsNaN(n) THEN Zero ELSE n

\* the characters String.prototype.replace(/[£$,\s%]/g, '') removes
Stripped == {"£", "$", ","} \cup WhiteSpace \cup {"%"}

IsKept(c) == c \notin Stripped

\* parseNumber of LexUpload.js, for a cell (a string; an absent value reads
\* as the empty string)
parseNumber(v) ==
    IF v = << >> THEN Zero
    ELSE OrZero(parseFloat(SelectSeq(v, IsKept)))

\* the characters the function's parseNumeric removes: /[£$€,\s%]/g
HandlerStripped == Stripped \cup {"€"}

IsKeptByHandler(c) == c \notin HandlerStripped

-----------------------------------------------------------------------------
(* The scoring engine of LexUpload.js. scoreVehicle is written in stages,  *)
(* each stage an operator that takes the locals computed so far.           *)

Null == [null |-> TRUE]

IsNull(x) == "null" \in DOMAIN x

LowerChar(c) ==
    IF \E i \in 1..26 : UpperLetters[i] = c
    THEN LowerLetters[CHOOSE i \in 1..26 : UpperLetters[i] = c]
    ELSE c

\* String.prototype.toLowerCase
toLowerCase(s) == [i \in 1..Len(s) |-> LowerChar(s[i])]

S_hybrid == <<"h","y","b","r","i","d">>

S_plugin == <<"p","l","u","g","i","n">>

S_phev == <<"p","h","e","v">>

S_electric == <<"e","l","e","c","t","r","i","c">>

S_diesel == <<"d","i","e","s","e","l">>

\* const assumptions = useMemo(...): prices in pounds
assumptions ==
    [ electricityPricePerKwh |-> Frac(30, 100),
      petrolPricePerLitre    |-> Frac(160, 100),
      dieselPricePerLitre    |-> Frac(170, 100) ]

\* x || d for numbers
OrDefault(x, d) == IF x # Zero THEN x ELSE d

\* x ?? d
Nullish(x, d) == IF IsNull(x) THEN d ELSE x

\* lines 152-153 of insuranceScoreFromGroup, n the parsed group
InsuranceScore(n) ==
    IF n = Zero \/ Lt(n, Num(1)) \/ Lt(Num(50), n) THEN Null
    ELSE Round1(Sub(Num(100), Mul(Div(Sub(n, Num(1)), Num(49)), Num(100))))

\* function insuranceScoreFromGroup(g)
insuranceScoreFromGroup(g) == InsuranceScore(parseNumber(g))

\* Math.max(0, Math.min(0.2, parseNumber(opts.insuranceWeight || 0))), the
\* option being a number
ClampWeight(w) == MaxOf(Zero, MinOf(Frac(2, 10), w))

\* lines 169-175 with every <= read as <
CostBandExclusive(totalCostVsValue) ==
    IF Lt(totalCostVsValue, Num(30)) THEN 100
    ELSE IF Lt(totalCostVsValue, Num(40)) THEN 90
    ELSE IF Lt(totalCostVsValue, Num(50)) THEN 75
    ELSE IF Lt(totalCostVsValue, Num(60)) THEN 60
    ELSE IF Lt(totalCostVsValue, Num(70)) THEN 40
    ELSE IF Lt(totalCostVsValue, Num(80)) THEN 20
    ELSE 0

\* lines 169-175: the bands of scoreVehicle
CostBand(totalCostVsValue) ==
    IF Le(totalCostVsValue, Num(30)) THEN 100
    ELSE IF Le(totalCostVsValue, Num(40)) THEN 90
    ELSE IF Le(totalCostVsValue, Num(50)) THEN 75
    ELSE IF Le(totalCostVsValue, Num(60)) THEN 60
    ELSE IF Le(totalCostVsValue, Num(70)) THEN 40
    ELSE IF Le(totalCostVsValue, Num(80)) THEN 20
    ELSE 0

\* line 166
TotalCostVsValue(totalLeaseCost, p11d) ==
    IF Lt(Zero, p11d) THEN Mul(Div(totalLeaseCost, p11d), Num(100)) ELSE Zero

\* lines 167-175
CostEfficiencyScore(monthly, p11d, totalCostVsValue) ==
    IF p11d = Zero \/ monthly = Zero THEN Zero ELSE Num(CostBand(totalCostVsValue))

\* line 177
MileageScore(mileage) == MinOf(Num(100), Mul(Div(mileage, Num(15000)), Num(100)))

\* line 182
IsHybrid(fuelType) ==
    includes(fuelType, S_hybrid) \/ includes(fuelType, S_plugin) \/ includes(fuelType, S_phev)

\* lines 180-198: the MPG of a hybrid whose figure is above 100
AdjustedMpg(mpg, isHybrid, evRange) ==
    IF isHybrid /\ Lt(Num(100), mpg)
    THEN IF Lt(Zero, evRange) /\ Lt(evRange, Num(60))
         THEN MinOf(Num(70), Add(Num(45), Mul(Div(evRange, Num(60)), Num(25))))
         ELSE IF Le(Num(60), evRange)
         THEN MinOf(Num(80), Add(Num(60), Mul(Div(MinOf(evRange, Num(100)), Num(100)), Num(20))))
         ELSE MinOf(Num(65), Mul(mpg, Frac(3, 10)))
    ELSE mpg

\* line 200
FuelScore(adjustedMpg) ==
    IF Lt(Zero, adjustedMpg) THEN MinOf(Num(100), Mul(adjustedMpg, Frac(15, 10))) ELSE Num(50)

\* line 201
EmissionsScore(co2) ==
    IF Lt(Zero, co2) THEN MaxOf(Zero, Sub(Num(100), Div(co2, Num(2)))) ELSE Num(50)

\* lines 204-208
MilesPerKwh(direct, kwh100) ==
    IF direct # Zero THEN direct
    ELSE IF kwh100 # Zero THEN Div(Frac(621371, 10000), kwh100)
    ELSE direct

\* lines 215-218
FuelCostPerMile(effectiveMpg, fuelType) ==
    Mul(IF Lt(Zero, effectiveMpg) THEN Div(Frac(454609, 100000), effectiveMpg)
        ELSE Frac(12, 100),
        IF includes(fuelType, S_diesel)
        THEN assumptions.dieselPricePerLitre ELSE assumptions.petrolPricePerLitre)

\* lines 209-219
CostPerMile(fuelType, co2, milesPerKwh, mpg, adjustedMpg, isHybrid) ==
    IF includes(fuelType, S_electric) \/ co2 = Zero \/ milesPerKwh # Zero
    THEN IF Lt(Zero, milesPerKwh)
         THEN Div(assumptions.electricityPricePerKwh, milesPerKwh)
         ELSE Frac(12, 100)
    ELSE FuelCostPerMile(IF isHybrid THEN adjustedMpg ELSE mpg, fuelType)

\* lines 221-227
OperatingCostScore(cpm) ==
    IF Le(cpm, Frac(8, 100)) THEN Num(100)
    ELSE IF Le(cpm, Frac(12, 100)) THEN Num(80)
    ELSE IF Le(cpm, Frac(2, 10)) THEN Num(40)
    ELSE IF Le(cpm, Frac(35, 100)) THEN Num(15)
    ELSE Zero

\* lines 230-238
EvRangeScore(evRange) ==
    IF evRange = Zero THEN Null
    ELSE IF Le(Num(250), evRange) THEN Num(100)
    ELSE IF Le(Num(200), evRange) THEN Num(90)
    ELSE IF Le(Num(150), evRange) THEN Num(70)
    ELSE IF Le(Num(100), evRange) THEN Num(50)
    ELSE Num(20)

\* Weights scaled to sum to 1 when the EV range term is present
WeightsRenormalized(evRange) ==
    IF evRange # Zero
    THEN [ costEfficiency |-> Frac(50, 105), mileage |-> Frac(15, 105), fuel |-> Frac(5, 105),
           emissions |-> Frac(10, 105), operating |-> Frac(20, 105), evRange |-> Frac(5, 105) ]
    ELSE [ costEfficiency |-> Frac(5, 10), mileage |-> Frac(15, 100), fuel |-> Frac(5, 100),
           emissions |-> Frac(1, 10), operating |-> Frac(2, 10), evRange |-> Zero ]

\* lines 240-247
Weights(evRange) ==
    [ costEfficiency |-> Frac(5, 10), mileage |-> Frac(15, 100), fuel |-> Frac(5, 100),
      emissions |-> Frac(1, 10), operating |-> Frac(2, 10),
      evRange |-> IF evRange # Zero THEN Frac(5, 100) ELSE Zero ]

\* lines 249-256
BaseScore(c, weights, evRange) ==
    Add(Add(Add(Add(Add(Mul(c.costEfficiencyScore, weights.costEfficiency),
                        Mul(c.mileageScore, weights.mileage)),
                    Mul(c.fuelScore, weights.fuel)),
                Mul(c.emissionsScore, weights.emissions)),
            Mul(c.operatingCostScore, weights.operating)),
        IF evRange # Zero THEN Mul(c.evRangeScore, weights.evRange) ELSE Zero)

\* lines 257-258
FinalScore(baseScore, igScore, insuranceWeight) ==
    Round1(Add(Mul(baseScore, Sub(Num(1), insuranceWeight)), Mul(igScore, insuranceWeight)))

\* lines 158-163, 181, 187, 204-208, 230: the values read off the vehicle
Parsed(v) ==
    [ monthly |-> parseNumber(v.monthly_payment),
      p11d    |-> parseNumber(v.p11d),
      mpg     |-> parseNumber(v.mpg),
      co2     |-> parseNumber(v.co2),
      term    |-> OrDefault(parseNumber(v.term), Num(36)),
      mileage |-> OrDefault(parseNumber(v.mileage), Num(10000)),
      otr     |-> parseNumber(v.otr_price),
      fuelType    |-> toLowerCase(v.fuel_type),
      evRange     |-> parseNumber(v.electric_range),
      milesPerKwh |-> MilesPerKwh(parseNumber(v.miles_per_kwh), parseNumber(v.kwh_per_100km)) ]

\* lines 165-166, 182-198, 209-219: what is derived from them
Derived(p, isHybrid, adjustedMpg, totalLeaseCost) ==
    [ isHybrid |-> isHybrid,
      adjustedMpg |-> adjustedMpg,
      totalLeaseCost |-> totalLeaseCost,
      totalCostVsValue |-> TotalCostVsValue(totalLeaseCost, p.p11d),
      costPerMile |-> CostPerMile(p.fuelType, p.co2, p.milesPerKwh, p.mpg, adjustedMpg, isHybrid) ]

DerivedFor(p, isHybrid) ==
    Derived(p, isHybrid, AdjustedMpg(p.mpg, isHybrid, p.evRange), Mul(p.monthly, p.term))

\* the component scores, insuranceScore as in line 287
Components(p, d, ig) ==
    [ costEfficiencyScore |-> CostEfficiencyScore(p.monthly, p.p11d, d.totalCostVsValue),
      mileageScore        |-> MileageScore(p.mileage),
      fuelScore           |-> FuelScore(d.adjustedMpg),
      emissionsScore      |-> EmissionsScore(p.co2),
      operatingCostScore  |-> OperatingCostScore(d.costPerMile),
      evRangeScore        |-> EvRangeScore(p.evRange),
      insuranceScore      |-> ig ]

\* lines 258-291: the score and the breakdown returned
Returned(v, p, d, c, weights, insuranceWeight) ==
    [ score |-> FinalScore(BaseScore(c, weights, p.evRange),
                           Nullish(c.insuranceScore, Num(50)), insuranceWeight),
      scoreBreakdown |->
        [ inputs |->
            [ monthly |-> p.monthly, term |-> p.term, mileage |-> p.mileage,
              p11d |-> p.p11d, otr |-> p.otr, mpg |-> p.mpg,
              adjustedMpg |-> IF d.isHybrid /\ Lt(Num(100), p.mpg) THEN d.adjustedMpg ELSE Null,
              co2 |-> p.co2, fuelType |-> v.fuel_type, milesPerKwh |-> p.milesPerKwh,
              electricRange |-> IF p.evRange # Zero THEN p.evRange ELSE Null ],
          derived |->
            [ totalLeaseCost |-> Frac(Round(Mul(d.totalLeaseCost, Num(100))), 100),
              totalCostVsP11DPercent |-> Round1(d.totalCostVsValue),
              costPerMile |-> Frac(Round(Mul(d.costPerMile, Num(10000))), 100) ],
          components |-> c,
          weights |-> weights ] ]

ScoreDerived(v, p, d, insuranceWeight) ==
    Returned(v, p, d, Components(p, d, insuranceScoreFromGroup(v.insurance_group)),
             Weights(p.evRange), insuranceWeight)

ScoreParsed(v, p, insuranceWeight) ==
    ScoreDerived(v, p, DerivedFor(p, IsHybrid(p.fuelType)), insuranceWeight)

\* function scoreVehicle(v, assumptions, opts)
scoreVehicle(v, opts) == ScoreParsed(v, Parsed(v), ClampWeight(opts.insuranceWeight))

-----------------------------------------------------------------------------
(* The scoring functions of the analyze-lease function. A value of a sheet *)
(* cell or of a vehicle field is a string or a number there.               *)

Str(s) == [t |-> "string", s |-> s]

NumV(r) == [t |-> "number", v |-> r]

Undefined == [t |-> "undefined"]

\* the truthiness of a string, a number or undefined
Truthy(x) == \/ x.t = "string" /\ x.s # << >>
             \/ x.t = "number" /\ x.v # Zero

\* a || b
OrElse(a, b) == IF Truthy(a) THEN a ELSE b

\* function parseNumeric(value)
parseNumeric(value) ==
    IF value.t = "number" THEN value.v
    ELSE IF value.t # "string" THEN Zero
    ELSE IF value.s = << >> \/ trim(value.s) = << >> THEN Zero
    ELSE OrZero(parseFloat(SelectSeq(value.s, IsKeptByHandler)))

\* lines 547-553: the bands of calculateScore
CalcCostBand(totalCostVsValue) ==
    IF Le(totalCostVsValue, Num(30)) THEN 100
    ELSE IF Le(totalCostVsValue, Num(40)) THEN 90
    ELSE IF Le(totalCostVsValue, Num(50)) THEN 75
    ELSE IF Le(totalCostVsValue, Num(60)) THEN 60
    ELSE IF Le(totalCostVsValue, Num(70)) THEN 40
    ELSE IF Le(totalCostVsValue, Num(80)) THEN 20
    ELSE 0

\* lines 598-604: the bands of computeScoreBreakdown
BreakdownCostBand(totalCostVsValue) ==
    IF Le(totalCostVsValue, Num(30)) THEN 100
    ELSE IF Le(totalCostVsValue, Num(40)) THEN 90
    ELSE IF Le(totalCostVsValue, Num(50)) THEN 75
    ELSE IF Le(totalCostVsValue, Num(60)) THEN 60
    ELSE IF Le(totalCostVsValue, Num(70)) THEN 40
    ELSE IF Le(totalCostVsValue, Num(80)) THEN 20
    ELSE 0

\* lines 556 and 606
HandlerMileageScore(mileage) ==
    IF Lt(Zero, mileage) THEN MinOf(Num(100), Mul(Div(mileage, Num(15000)), Num(100)))
    ELSE Num(50)

\* lines 559 and 607
HandlerFuelScore(mpg) ==
    IF Lt(Zero, mpg) THEN MinOf(Num(100), Mul(mpg, Frac(15, 10))) ELSE Num(50)

\* lines 562 and 608
HandlerEmissionsScore(co2) ==
    IF Lt(Zero, co2) THEN MaxOf(Zero, Sub(Num(100), Div(co2, Num(2)))) ELSE Num(50)

\* lines 565-570 and 614-619, before rounding
WeightedTotal(costEfficiencyScore, mileageScore, fuelScore, emissionsScore) ==
    Add(Add(Add(Mul(costEfficiencyScore, Frac(6, 10)), Mul(mileageScore, Frac(2, 10))),
            Mul(fuelScore, Frac(1, 10))),
        Mul(emissionsScore, Frac(1, 10)))

\* lines 524-534 and 577-589: the values read off the vehicle
HandlerParsed(v) ==
    [ monthly |-> parseNumeric(v.monthly_payment),
      p11d    |-> parseNumeric(v.p11d),
      otr     |-> parseNumeric(v.otr_price),
      mpg     |-> parseNumeric(v.mpg),
      co2     |-> parseNumeric(v.co2),
      insuranceGroup |-> parseNumeric(v.insurance_group),
      term    |-> parseNumeric(v.term),
      mileage |-> parseNumeric(v.mileage) ]

\* if (x === 0) x = d
IfZero(x, d) == IF x = Zero THEN d ELSE x

\* lines 538-572 of calculateScore
CalcBanded(p, mileage, totalCostVsValue, costEfficiencyScore) ==
    [ returned |-> Round1(WeightedTotal(Num(costEfficiencyScore), HandlerMileageScore(mileage),
                                        HandlerFuelScore(p.mpg), HandlerEmissionsScore(p.co2))),
      early |-> FALSE,
      totalCostVsValue |-> totalCostVsValue,
      costEfficiencyScore |-> costEfficiencyScore ]

CalcRatio(p, mileage, totalCostVsValue) ==
    CalcBanded(p, mileage, totalCostVsValue, CalcCostBand(totalCostVsValue))

\* lines 533-542 of calculateScore
CalcParsed(p, term, mileage) ==
    IF p.monthly = Zero \/ p.p11d = Zero
    THEN [returned |-> Zero, early |-> TRUE]
    ELSE CalcRatio(p, mileage, Mul(Div(Mul(p.monthly, term), p.p11d), Num(100)))

\* function calculateScore(vehicle): its return value, whether it returned
\* at line 536, and otherwise its locals totalCostVsValue and
\* costEfficiencyScore
calculateScoreFrame(v) ==
    CalcParsed(HandlerParsed(v), IfZero(parseNumeric(v.term), Num(36)),
               IfZero(parseNumeric(v.mileage), Num(10000)))

calculateScore(v) == calculateScoreFrame(v).returned

\* lines 609-611
BreakdownInsuranceScore(insuranceGroup) ==
    IF Lt(Zero, insuranceGroup) /\ Le(insuranceGroup, Num(50))
    THEN Round1(Sub(Num(100), Mul(Div(Sub(insuranceGroup, Num(1)), Num(49)), Num(100))))
    ELSE Null

\* lines 596-611
BreakdownComponents(p, mileage, totalCostVsValue) ==
    [ costEfficiencyScore |-> IF p.p11d = Zero \/ p.monthly = Zero THEN Zero
                              ELSE Num(BreakdownCostBand(totalCostVsValue)),
      mileageScore   |-> HandlerMileageScore(mileage),
      fuelScore      |-> HandlerFuelScore(p.mpg),
      emissionsScore |-> HandlerEmissionsScore(p.co2),
      insuranceScore |-> BreakdownInsuranceScore(p.insuranceGroup) ]

\* lines 613-652
BreakdownReturned(p, term, mileage, totalLeaseCost, totalCostVsValue, c) ==
    [ score |-> Round1(WeightedTotal(c.costEfficiencyScore, c.mileageScore, c.fuelScore,
                                     c.emissionsScore)),
      breakdown |->
        [ inputs |->
            [ monthly |-> p.monthly, term |-> term, mileage |-> mileage, p11d |-> p.p11d,
              otr |-> p.otr, mpg |-> p.mpg, co2 |-> p.co2,
              insuranceGroup |-> IF p.insuranceGroup # Zero THEN p.insuranceGroup ELSE Null,
              defaultsApplied |-> [ term |-> p.term = Zero, mileage |-> p.mileage = Zero ] ],
          derived |->
            [ totalLeaseCost |-> Frac(Round(Mul(totalLeaseCost, Num(100))), 100),
              totalCostVsP11DPercent |-> Round1(totalCostVsValue) ],
          components |-> c,
          weights |-> [ costEfficiency |-> Frac(6, 10), mileage |-> Frac(2, 10),
                        fuel |-> Frac(1, 10), emissions |-> Frac(1, 10) ] ] ]

BreakdownRatio(p, term, mileage, totalLeaseCost, totalCostVsValue) ==
    BreakdownReturned(p, term, mileage, totalLeaseCost, totalCostVsValue,
                      BreakdownComponents(p, mileage, totalCostVsValue))

\* lines 592-593
BreakdownCost(p, term, mileage, totalLeaseCost) ==
    BreakdownRatio(p, term, mileage, totalLeaseCost,
                   IF Lt(Zero, p.p11d) THEN Mul(Div(totalLeaseCost, p.p11d), Num(100)) ELSE Zero)

\* lines 586-592
BreakdownParsed(p, term, mileage) == BreakdownCost(p, term, mileage, Mul(p.monthly, term))

\* function computeScoreBreakdown(vehicle)
computeScoreBreakdown(v) ==
    BreakdownParsed(HandlerParsed(v), IfZero(parseNumeric(v.term), Num(36)),
                    IfZero(parseNumeric(v.mileage), Num(10000)))

\* function getScoreCategory(score); the ladder of onRow in LexUpload.js is
\* the same
getScoreCategory(score) ==
    IF Le(Num(90), score) THEN "Exceptional"
    ELSE IF Le(Num(70), score) THEN "Excellent"
    ELSE IF Le(Num(50), score) THEN "Good"
    ELSE IF Le(Num(30), score) THEN "Fair"
    ELSE "Poor"

-----------------------------------------------------------------------------
(* Scoring one vehicle with the three scoring functions                    *)

\* The cell texts the vehicles are made of
Cell ==
    [ v0 |-> <<"0">>,   \* "0"
      v300 |-> <<"3","0","0">>,   \* "300"
      v301 |-> <<"£","3","0","1",".","0","0">>,   \* "£301.00"
      v800 |-> <<"8","0","0">>,   \* "800"
      v801 |-> <<"8","0","1">>,   \* "801"
      vminus800 |-> <<"-","8","0","0">>,   \* "-800"
      v36000 |-> <<"3","6","0","0","0">>,   \* "36000"
      v36000_gbp |-> <<"£","3","6",",","0","0","0">>,   \* "£36,000"
      vminus36000 |-> <<"-","3","6","0","0","0">>,   \* "-36000"
      v36 |-> <<"3","6">>,   \* "36"
      v24 |-> <<"2","4">>,   \* "24"
      v10000 |-> <<"1","0","0","0","0">>,   \* "10000"
      v15000 |-> <<"1","5","0","0","0">>,   \* "15000"
      v55_4 |-> <<"5","5",".","4">>,   \* "55.4"
      v45 |-> <<"4","5">>,   \* "45"
      v150 |-> <<"1","5","0">>,   \* "150"
      v120 |-> <<"1","2","0">>,   \* "120"
      v130 |-> <<"1","3","0">>,   \* "130"
      v140 |-> <<"1","4","0">>,   \* "140"
      vminus100000 |-> <<"-","1","0","0","0","0","0">>,   \* "-100000"
      v30 |-> <<"3","0">>,   \* "30"
      v40 |-> <<"4","0">>,   \* "40"
      v250 |-> <<"2","5","0">>,   \* "250"
      v16 |-> <<"1","6">>,   \* "16"
      v3_5 |-> <<"3",".","5">>,   \* "3.5"
      v20 |-> <<"2","0">>,   \* "20"
      v51 |-> <<"5","1">>,   \* "51"
      v1 |-> <<"1">>,   \* "1"
      vPetrol |-> <<"P","e","t","r","o","l">>,   \* "Petrol"
      vDiesel |-> <<"D","i","e","s","e","l">>,   \* "Diesel"
      vPluginHybrid |-> <<"P","l","u","g","i","n"," ","H","y","b","r","i","d">>,   \* "Plugin Hybrid"
      vElectric |-> <<"E","l","e","c","t","r","i","c">>,   \* "Electric"
      vBMW |-> <<"B","M","W">>,   \* "BMW"
      v320d |-> <<"3","2","0","d">> ]   \* "320d"

\* The cost cells of a vehicle: an exact 30% and an exact 80% of the list
\* price over 36 months, the values just above them, absent and zero
\* values, currency formatting and negative figures
MonthlyCells == {<< >>, Cell.v0, Cell.v300, Cell.v301, Cell.v800, Cell.v801, Cell.vminus800}

P11dCells == {<< >>, Cell.v36000, Cell.v36000_gbp, Cell.vminus36000}

TermCells == {<< >>, Cell.v36, Cell.v24}

MileageCells == {<< >>, Cell.v10000, Cell.v15000}

\* The efficiency cells of a vehicle: none, a petrol car, a diesel car, a
\* plug-in hybrid with an unrealistic MPG, a range-extended plug-in hybrid
\* with a consumption figure, the same with no range given, and two
\* electric cars
Profiles ==
    { [ mpg |-> << >>, co2 |-> << >>, fuel_type |-> << >>, miles_per_kwh |-> << >>,
        kwh_per_100km |-> << >>, electric_range |-> << >>, insurance_group |-> << >> ],
      [ mpg |-> Cell.v55_4, co2 |-> Cell.v120, fuel_type |-> Cell.vPetrol, miles_per_kwh |-> << >>,
        kwh_per_100km |-> << >>, electric_range |-> << >>, insurance_group |-> Cell.v20 ],
      [ mpg |-> Cell.v45, co2 |-> Cell.v130, fuel_type |-> Cell.vDiesel, miles_per_kwh |-> << >>,
        kwh_per_100km |-> << >>, electric_range |-> << >>, insurance_group |-> Cell.v1 ],
      [ mpg |-> Cell.v150, co2 |-> Cell.v30, fuel_type |-> Cell.vPluginHybrid, miles_per_kwh |-> << >>,
        kwh_per_100km |-> << >>, electric_range |-> Cell.v40, insurance_group |-> Cell.v51 ],
      [ mpg |-> Cell.v150, co2 |-> Cell.v30, fuel_type |-> Cell.vPluginHybrid, miles_per_kwh |-> << >>,
        kwh_per_100km |-> Cell.v16, electric_range |-> Cell.v120, insurance_group |-> Cell.v1 ],
      [ mpg |-> Cell.v150, co2 |-> Cell.v30, fuel_type |-> Cell.vPluginHybrid, miles_per_kwh |-> << >>,
        kwh_per_100km |-> Cell.v16, electric_range |-> << >>, insurance_group |-> Cell.v1 ],
      [ mpg |-> << >>, co2 |-> Cell.v0, fuel_type |-> Cell.vElectric, miles_per_kwh |-> << >>,
        kwh_per_100km |-> Cell.v16, electric_range |-> Cell.v250, insurance_group |-> << >> ],
      [ mpg |-> << >>, co2 |-> << >>, fuel_type |-> Cell.vElectric, miles_per_kwh |-> Cell.v3_5,
        kwh_per_100km |-> << >>, electric_range |-> Cell.v150, insurance_group |-> Cell.v20 ] }

\* The vehicle onRow builds from a row's cells
Vehicle(monthly, p11d, term, mileage, p) ==
    [ manufacturer |-> Cell.vBMW, model |-> Cell.v320d, monthly_payment |-> monthly,
      p11d |-> p11d, otr_price |-> << >>, mpg |-> p.mpg, co2 |-> p.co2,
      fuel_type |-> p.fuel_type, miles_per_kwh |-> p.miles_per_kwh,
      kwh_per_100km |-> p.kwh_per_100km, electric_range |-> p.electric_range,
      term |-> term, mileage |-> mileage, insurance_group |-> p.insurance_group ]

Vehicles ==
    { Vehicle(m, p, t, mi, pr) : m \in MonthlyCells, p \in P11dCells, t \in TermCells,
                                 mi \in MileageCells, pr \in Profiles }

\* A cell whose text is a plain decimal number
LooksNumeric(s) ==
    /\ s # << >>
    /\ \A i \in 1..Len(s) : IsDigit(s[i]) \/ s[i] \in {"-", "."}
    /\ ~IsNaN(parseFloat(s))

\* XLSX.utils.sheet_to_json(worksheet, {header: 1, raw: true, defval: ''}):
\* the cell as a number when the sheet holds it as one, as a string otherwise
SheetCell(s, numeric) ==
    IF numeric /\ LooksNumeric(s) THEN NumV(parseFloat(s)) ELSE Str(s)

\* The vehicle the handler's row loop builds from the cells of a row (a
\* record of cells by field, Undefined where the column is unmapped or the
\* row too short), with the OTR price standing in for a missing P11D.
\* cap_id, upfront and format are carried along and read by no scoring code.
BuildVehicle(cell) ==
    LET built ==
            [ manufacturer    |-> OrElse(cell.manufacturer, Str(<< >>)),
              model           |-> OrElse(cell.model, Str(<< >>)),
              monthly_payment |-> OrElse(cell.monthly_payment, NumV(Zero)),
              p11d            |-> OrElse(cell.p11d, NumV(Zero)),
              otr_price       |-> OrElse(cell.otr_price, NumV(Zero)),
              mpg             |-> OrElse(cell.mpg, NumV(Zero)),
              co2             |-> OrElse(cell.co2, NumV(Zero)),
              insurance_group |-> OrElse(cell.insurance_group, Str(<< >>)),
              term            |-> OrElse(cell.term, Str(<< >>)),
              mileage         |-> OrElse(cell.mileage, Str(<< >>)) ]
    IN  IF parseNumeric(built.p11d) = Zero /\ Lt(Zero, parseNumeric(built.otr_price))
        THEN [built EXCEPT !.p11d = built.otr_price]
        ELSE built

HandlerFields ==
    {"manufacturer", "model", "monthly_payment", "p11d", "otr_price", "mpg", "co2",
     "insurance_group", "term", "mileage"}

\* The handler's vehicle for the same cells as a LexUpload vehicle
HandlerVehicle(v, numeric) == BuildVehicle([f \in HandlerFields |-> SheetCell(v[f], numeric)])

\* { insuranceWeight: useInsuranceWeight ? 0.05 : 0 }
Opts(use) == [insuranceWeight |-> IF use THEN Frac(5, 100) ELSE Zero]

ScoreInit ==
    /\ vehicle \in Vehicles
    /\ useInsuranceWeight \in BOOLEAN
    /\ numericCells \in BOOLEAN
    /\ lexOut = Null
    /\ calcOut = Null
    /\ breakdownOut = Null
    /\ scorepc = "fresh"

ScoreIdle ==
    /\ vehicle = Null
    /\ useInsuranceWeight = FALSE
    /\ numericCells = FALSE
    /\ lexOut = Null
    /\ calcOut = Null
    /\ breakdownOut = Null
    /\ scorepc = "idle"

\* scoreVehicle(vehicle, assumptions, { insuranceWeight })
ScoreVehicle ==
    /\ scorepc = "fresh"
    /\ lexOut = Null
    /\ lexOut' = scoreVehicle(vehicle, Opts(useInsuranceWeight))
    /\ UNCHANGED <<vehicle, useInsuranceWeight, numericCells, calcOut, breakdownOut, scorepc>>
    /\ UNCHANGED notScore

\* calculateScore(vehicle) in the handler
CalculateScore ==
    /\ scorepc = "fresh"
    /\ calcOut = Null
    /\ calcOut' = calculateScoreFrame(HandlerVehicle(vehicle, numericCells))
    /\ UNCHANGED <<vehicle, useInsuranceWeight, numericCells, lexOut, breakdownOut, scorepc>>
    /\ UNCHANGED notScore

\* computeScoreBreakdown(v) in the handler
ComputeScoreBreakdown ==
    /\ scorepc = "fresh"
    /\ breakdownOut = Null
    /\ breakdownOut' = computeScoreBreakdown(HandlerVehicle(vehicle, numericCells))
    /\ UNCHANGED <<vehicle, useInsuranceWeight, numericCells, lexOut, calcOut, scorepc>>
    /\ UNCHANGED notScore

ScoreNext == ScoreVehicle \/ CalculateScore \/ ComputeScoreBreakdown

-----------------------------------------------------------------------------
(* One run of LexUpload.analyzeCsv over the rows the streamer delivers     *)

\* The capacity of minHeap (100 in the code), scaled down
TopLimit == 4

\* The capacity of lightHeap (1000 in the code), scaled down
LightLimit == 4

\* Most rows a run scores
MaxRows == 5

\* The header cells of a rate sheet, and the one cell of a preamble line
HeaderCell ==
    [ MANUFACTURER |-> <<"M","A","N","U","F","A","C","T","U","R","E","R">>,   \* "MANUFACTURER"
      MODEL |-> <<"M","o","d","e","l">>,   \* "Model"
      MONTHLY_PAYMENT |-> <<"M","o","n","t","h","l","y"," ","P","a","y","m","e","n","t">>,   \* "Monthly Payment"
      P11D |-> <<"P","1","1","D">>,   \* "P11D"
      CO2 |-> <<"C","O","2">>,   \* "CO2"
      INSURANCE_GROUP |-> <<"I","n","s","u","r","a","n","c","e"," ","G","r","o","u","p">>,   \* "Insurance Group"
      MILEAGE |-> <<"M","i","l","e","a","g","e">>,   \* "Mileage"
      junk |-> <<"L","e","x"," ","A","u","t","o","l","e","a","s","e"," ","r","a","t","e","b","o","o","k">> ]   \* "Lex Autolease ratebook"

RowHeader ==
    <<HeaderCell.MANUFACTURER, HeaderCell.MODEL, HeaderCell.MONTHLY_PAYMENT, HeaderCell.P11D, HeaderCell.CO2,
      HeaderCell.INSURANCE_GROUP, HeaderCell.MILEAGE>>

RowJunk == <<HeaderCell.junk>>

\* The data rows. Four vehicles at 300 a month: CO2 140 and 130 in insurance
\* group 20, CO2 130 in group 1, CO2 120 with no group; their scores rise
\* by half a point per 10 g/km. A row with a manufacturer but no model, no
\* monthly payment, and a negative mileage. A row with neither manufacturer
\* nor model.
DataRows ==
    { <<Cell.vBMW, Cell.v320d, Cell.v300, Cell.v36000, Cell.v140, Cell.v20, << >> >>,
      <<Cell.vBMW, Cell.v320d, Cell.v300, Cell.v36000, Cell.v130, Cell.v20, << >> >>,
      <<Cell.vBMW, Cell.v320d, Cell.v300, Cell.v36000, Cell.v130, Cell.v1, << >> >>,
      <<Cell.vBMW, Cell.v320d, Cell.v300, Cell.v36000, Cell.v120, << >>, << >> >>,
      <<Cell.vBMW, << >>, << >>, Cell.v36000, Cell.v120, << >>, Cell.vminus100000>>,
      << << >>, << >>, Cell.v300, Cell.v36000, Cell.v120, << >>, << >> >> }

\* The rows the streamer can hand to onRow: a file may hold any of them in
\* any order
Rows == {RowJunk, RowHeader} \cup DataRows

\* lines 313-321: the local variables of analyzeCsv as the run starts; the
\* header is null or, once detected, the record of its cells
Locals ==
    [ header |-> Null, indices |-> << >>,
      totalVehicles |-> 0, scoreSum |-> Zero, topScore |-> Zero,
      distribution |-> [exceptional |-> 0, excellent |-> 0, good |-> 0, fair |-> 0, poor |-> 0],
      minHeap |-> << >>, lightHeap |-> << >> ]

\* line 332
IsEmptyLine(arr) == Len(arr) = 0 \/ (Len(arr) = 1 /\ arr[1] = << >>)

\* line 337
essentialKeys == {"manufacturer", "model", "monthly_cm", "monthly_wm", "p11d", "term", "mileage"}

\* lines 338-339: whether the candidate row is taken as the header
IsHeaderOfThree(candidateIdx) ==
    Cardinality({k \in essentialKeys : Has(candidateIdx, k)}) >= 3

IsHeader(candidateIdx) ==
    \/ Cardinality({k \in essentialKeys : Has(candidateIdx, k)}) >= 3
    \/ Has(candidateIdx, "manufacturer") /\ Has(candidateIdx, "model")

\* line 335: arr.map(x => (x || '').toString().trim())
Candidate(arr) == [i \in 1..Len(arr) |-> trim(arr[i])]

\* lines 336-342 with the assignments outside the test of line 339
DetectedUntested(l, candidate, candidateIdx) ==
    [l EXCEPT !.header = [cells |-> candidate], !.indices = candidateIdx]

\* lines 336-342 for a candidate and its resolved columns
Detected(l, candidate, candidateIdx) ==
    IF IsHeader(candidateIdx)
    THEN [l EXCEPT !.header = [cells |-> candidate], !.indices = candidateIdx]
    ELSE l

\* line 346: const get = (key) => indices[key] !== undefined ? arr[indices[key]] : ''
\* (a cell past the end of the row is undefined, which every reader of the
\* vehicle treats as it treats the empty string)
Get(arr, indices, key) ==
    IF Has(indices, key) /\ indices[key] + 1 <= Len(arr) THEN arr[indices[key] + 1] ELSE << >>

\* a || b for two strings
OrString(a, b) == IF a # << >> THEN a ELSE b

\* lines 347-370: the vehicle built from a row
RowVehicle(arr, indices) ==
    [ manufacturer    |-> Get(arr, indices, "manufacturer"),
      model           |-> Get(arr, indices, "model"),
      monthly_payment |-> OrString(Get(arr, indices, "monthly_cm"), Get(arr, indices, "monthly_wm")),
      p11d            |-> OrString(Get(arr, indices, "p11d"), Get(arr, indices, "otr")),
      otr_price       |-> Get(arr, indices, "otr"),
      mpg             |-> Get(arr, indices, "mpg"),
      co2             |-> Get(arr, indices, "co2"),
      fuel_type       |-> Get(arr, indices, "fuel_type"),
      miles_per_kwh   |-> Get(arr, indices, "miles_per_kwh"),
      kwh_per_100km   |-> Get(arr, indices, "kwh_per_100km"),
      electric_range  |-> Get(arr, indices, "electric_range"),
      term            |-> Get(arr, indices, "term"),
      mileage         |-> Get(arr, indices, "mileage"),
      insurance_group |-> Get(arr, indices, "insurance_group"),
      format          |-> "lex-csv" ]

\* lines 374-379
Category(score) ==
    IF Le(Num(90), score) THEN "Exceptional"
    ELSE IF Le(Num(70), score) THEN "Excellent"
    ELSE IF Le(Num(50), score) THEN "Good"
    ELSE IF Le(Num(30), score) THEN "Fair"
    ELSE "Poor"

\* line 384: the bucket that is incremented
Bucket(score) ==
    IF Le(Num(90), score) THEN "exceptional"
    ELSE IF Le(Num(70), score) THEN "excellent"
    ELSE IF Le(Num(50), score) THEN "good"
    ELSE IF Le(Num(30), score) THEN "fair"
    ELSE "poor"

\* the stable place of x in a list that is ascending by s: after every entry
\* whose s is not above its own
RECURSIVE InsertAscending(_, _)
InsertAscending(sorted, x) ==
    IF sorted = << >> THEN <<x>>
    ELSE IF Le(sorted[Len(sorted)].s, x.s) THEN Append(sorted, x)
    ELSE Append(InsertAscending(SubSeq(sorted, 1, Len(sorted) - 1), x), sorted[Len(sorted)])

\* line 325: heap.sort((a, b) => a.s - b.s), a stable sort
RECURSIVE SortAscending(_)
SortAscending(heap) ==
    IF heap = << >> THEN << >>
    ELSE InsertAscending(SortAscending(SubSeq(heap, 1, Len(heap) - 1)), heap[Len(heap)])

\* lines 323-327 with pop() for shift(): the last entry is the one dropped
pushHeapDropLast(heap, limit, itemScore, item) ==
    IF Len(heap) + 1 > limit
    THEN SubSeq(SortAscending(Append(heap, [s |-> itemScore, item |-> item])), 1, Len(heap))
    ELSE SortAscending(Append(heap, [s |-> itemScore, item |-> item]))

\* lines 323-327: const pushHeap = (heap, limit, itemScore, item) => ...
pushHeap(heap, limit, itemScore, item) ==
    IF Len(heap) + 1 > limit
    THEN Tail(SortAscending(Append(heap, [s |-> itemScore, item |-> item])))
    ELSE SortAscending(Append(heap, [s |-> itemScore, item |-> item]))

\* line 386: { ...vehicle, scoreBreakdown }, the vehicle carrying its score
\* and category by then
FullItem(v, out) ==
    [ vehicle |-> v, score |-> out.score, scoreInfo |-> [category |-> Category(out.score)],
      scoreBreakdown |-> out.scoreBreakdown ]

\* lines 387-396
LightItem(v, score) ==
    [ m  |-> Slice(v.manufacturer, 0, 15),
      d  |-> Slice(v.model, 0, 40),
      p  |-> Round(parseNumber(v.monthly_payment)),
      v  |-> Round(parseNumber(v.p11d)),
      t  |-> parseNumber(v.term),
      mi |-> parseNumber(v.mileage),
      s  |-> score,
      c  |-> Slice(Category(score), 0, 4) ]

\* lines 381-396: the stats and the two heaps after a scored vehicle
Observed(l, v, out) ==
    [ l EXCEPT !.totalVehicles = @ + 1,
               !.scoreSum = Add(@, out.score),
               !.topScore = IF Lt(@, out.score) THEN out.score ELSE @,
               !.distribution[Bucket(out.score)] = @ + 1,
               !.minHeap = pushHeap(@, TopLimit, out.score, FullItem(v, out)),
               !.lightHeap = pushHeap(@, LightLimit, out.score, LightItem(v, out.score)) ]

\* lines 347-351: whether a row read under a header goes on to be scored
Kept(v) == ~(v.manufacturer = << >> /\ v.model = << >>)

\* lines 345-396 for the vehicle of the row
Mapped(l, v, use) ==
    IF Kept(v) THEN Observed(l, v, scoreVehicle(v, Opts(use))) ELSE l

\* lines 329-397: const onRow = (arr) => ..., on the locals l; nothing sets
\* cancelledRef.current (lines 298, 311), so line 330 never returns
onRow(l, arr, use) ==
    IF IsEmptyLine(arr) THEN l
    ELSE IF IsNull(l.header) THEN Detected(l, Candidate(arr), buildColumnIndices(Candidate(arr)))
    ELSE Mapped(l, RowVehicle(arr, l.indices), use)

\* lines 402-410: the comparator of the topDeals sort; negative when a sorts
\* before b
CompareByInsurance(a, b, igA, igB) ==
    IF igB # igA THEN Sub(igB, igA)
    ELSE Sub(parseNumber(a.item.vehicle.monthly_payment), parseNumber(b.item.vehicle.monthly_payment))

CompareDeals(a, b) ==
    IF Le(Num(1), Sub(b.s, a.s)) \/ Le(Num(1), Sub(a.s, b.s)) THEN Sub(b.s, a.s)
    ELSE CompareByInsurance(a, b,
             Nullish(a.item.scoreBreakdown.components.insuranceScore, Zero),
             Nullish(b.item.scoreBreakdown.components.insuranceScore, Zero))

Before(a, b) == Lt(CompareDeals(a, b), Zero)

Tied(a, b) == CompareDeals(a, b) = Zero

\* Whether the comparator is a consistent comparator for the entries of the
\* heap (ECMA-262, Array.prototype.sort): being tied and sorting before are
\* both transitive; it is antisymmetric by construction
Consistent(heap) ==
    \A i, j, k \in 1..Len(heap) :
        /\ Before(heap[i], heap[j]) /\ Before(heap[j], heap[k]) => Before(heap[i], heap[k])
        /\ Tied(heap[i], heap[j]) /\ Tied(heap[j], heap[k]) => Tied(heap[i], heap[k])

\* the stable place of x in a list the comparator has sorted: behind every
\* entry it does not sort before
RECURSIVE InsertDeal(_, _)
InsertDeal(sorted, x) ==
    IF sorted = << >> THEN <<x>>
    ELSE IF ~Before(x, sorted[Len(sorted)]) THEN Append(sorted, x)
    ELSE Append(InsertDeal(SubSeq(sorted, 1, Len(sorted) - 1), x), sorted[Len(sorted)])

RECURSIVE SortDeals(_)
SortDeals(heap) ==
    IF heap = << >> THEN << >>
    ELSE InsertDeal(SortDeals(SubSeq(heap, 1, Len(heap) - 1)), heap[Len(heap)])

\* line 402: what minHeap.sort(...) can leave the heap as. With a consistent
\* comparator it is the one stable sorted order; with any other the order
\* is implementation-defined
SortedDeals(heap) ==
    IF Consistent(heap) THEN { SortDeals(heap) }
    ELSE { [i \in 1..Len(heap) |-> heap[p[i]]] : p \in Permutations(1..Len(heap)) }

\* the stable place of x in a list that is descending by s
RECURSIVE InsertDescending(_, _)
InsertDescending(sorted, x) ==
    IF sorted = << >> THEN <<x>>
    ELSE IF Le(x.s, sorted[Len(sorted)].s) THEN Append(sorted, x)
    ELSE Append(InsertDescending(SubSeq(sorted, 1, Len(sorted) - 1), x), sorted[Len(sorted)])

\* line 412: lightHeap.sort((a, b) => b.s - a.s), a stable sort
RECURSIVE SortDescending(_)
SortDescending(heap) ==
    IF heap = << >> THEN << >>
    ELSE InsertDescending(SortDescending(SubSeq(heap, 1, Len(heap) - 1)), heap[Len(heap)])

\* .map(x => x.item)
Items(heap) == [i \in 1..Len(heap) |-> heap[i].item]

\* line 413
AverageScore(l) ==
    IF l.totalVehicles # 0 THEN Round1(Div(l.scoreSum, Num(l.totalVehicles))) ELSE Zero

\* lines 402-440: the report, the sort having left minHeap as sorted
Report(l, sorted, use) ==
    [ provider |-> "Lex",
      success |-> TRUE,
      stats |-> [ totalVehicles |-> l.totalVehicles,
                  averageScore |-> AverageScore(l),
                  topScore |-> l.topScore,
                  scoreDistribution |-> l.distribution ],
      topDeals |-> Items(sorted),
      allVehicles |-> Items(SortDescending(l.lightHeap)),
      columnMappings |-> l.indices,
      insuranceGroupWeighted |-> use ]

\* lines 443-445 with nothing reported
CaughtSilently(cs) == cs

\* lines 443-445: catch (e) { ...; onError(e.message || 'Failed to analyze CSV') }
Caught(cs) == Append(cs, "onError")

\* Whether onRow hands the row to scoreVehicle, and what is then on record
\* of it: the vehicle and its score
Scores(l, arr) == ~IsEmptyLine(arr) /\ ~IsNull(l.header) /\ Kept(RowVehicle(arr, l.indices))

ScoredRow(v, use) == [vehicle |-> v, s |-> scoreVehicle(v, Opts(use)).score]

RunInit ==
    /\ locals = Locals
    /\ calls = << >>
    /\ results = Null
    /\ parsing = FALSE
    /\ cancelled = FALSE
    /\ scored = << >>
    /\ runpc = "ready"

RunIdle ==
    /\ locals = Locals
    /\ calls = << >>
    /\ results = Null
    /\ parsing = FALSE
    /\ cancelled = FALSE
    /\ scored = << >>
    /\ runpc = "idle"

\* the checkbox: onChange={(e) => setUseInsuranceWeight(e.target.checked)};
\* a run works with the value it was started with
ToggleInsuranceWeight ==
    /\ runpc = "ready"
    /\ useInsuranceWeight' = ~useInsuranceWeight
    /\ UNCHANGED <<vehicle, numericCells, lexOut, calcOut, breakdownOut, scorepc>>
    /\ UNCHANGED <<runVars, streamVars, colVars, fileVars, pageVars>>

\* lines 307-327 and 399: analyzeCsv up to the first read of the streamer
Start ==
    /\ runpc = "ready"
    /\ calls' = Append(calls, "onAnalysisStart")
    /\ parsing' = TRUE
    /\ cancelled' = FALSE
    /\ locals' = Locals
    /\ runpc' = "streaming"
    /\ UNCHANGED <<results, scored>>
    /\ UNCHANGED notRun

\* the streamer hands the next row of the file to onRow
OnRow ==
    /\ runpc = "streaming"
    /\ Len(scored) < MaxRows
    /\ \E arr \in Rows :
          /\ locals' = IF cancelled THEN locals ELSE onRow(locals, arr, useInsuranceWeight)
          /\ scored' = IF ~cancelled /\ Scores(locals, arr)
                       THEN InsertDescending(scored, ScoredRow(RowVehicle(arr, locals.indices), useInsuranceWeight))
                       ELSE scored
    /\ UNCHANGED <<calls, results, parsing, cancelled, runpc>>
    /\ UNCHANGED notRun

\* reader.onerror rejects the streamer's promise: lines 443-449
ReadError ==
    /\ runpc = "streaming"
    /\ calls' = Caught(calls)
    /\ parsing' = FALSE
    /\ runpc' = "failed"
    /\ UNCHANGED <<locals, results, cancelled, scored>>
    /\ UNCHANGED notRun

\* the streamer resolves, the file having no more rows: lines 401-442 and
\* 446-449
Finalize ==
    /\ runpc = "streaming"
    /\ \E sorted \in SortedDeals(locals.minHeap) :
           results' = Report(locals, sorted, useInsuranceWeight)
    /\ calls' = Append(calls, "onAnalysisComplete")
    /\ parsing' = FALSE
    /\ runpc' = "done"
    /\ UNCHANGED <<locals, cancelled, scored>>
    /\ UNCHANGED notRun

RunNext == ToggleInsuranceWeight \/ Start \/ OnRow \/ ReadError \/ Finalize

-----------------------------------------------------------------------------
(* The analyze-lease function on one uploaded sheet (part_002 663-1010),   *)
(* and LexUpload.analyzeCsv on the same file                                *)

\* The widest line of the file
RECURSIVE Width(_)
Width(lines) ==
    IF lines = << >> THEN 0 ELSE Max(Len(lines[Len(lines)]), Width(SubSeq(lines, 1, Len(lines) - 1)))

\* lines 714-718: sheet_to_json(worksheet, { header: 1, raw: true, defval: '' }).
\* Every row spans the sheet's range, an absent cell being the defval
JsonRow(line, width, numeric) ==
    [c \in 1..width |-> IF c <= Len(line) THEN SheetCell(line[c], numeric) ELSE Str(<< >>)]

JsonData(lines, numeric) ==
    [r \in 1..Len(lines) |-> JsonRow(lines[r], Width(lines), numeric)]

\* the cells of a row as findColumn reads them: a cell that is not a string
\* counts as ''
HeaderTexts(jsonRow) ==
    [c \in 1..Len(jsonRow) |-> IF jsonRow[c].t = "string" THEN jsonRow[c].s ELSE << >>]

\* line 760
AcceptsHeader(t) == Cardinality(DOMAIN t) >= 5 /\ Has(t, "term") /\ Has(t, "mileage")

\* lines 744-769: the 0-based index of the first of the first ten rows that
\* is taken as the header row, -1 when none is
RECURSIVE FindHeaderRow(_, _)
FindHeaderRow(jsonData, i) ==
    IF i >= Min(10, Len(jsonData)) THEN -1
    ELSE IF Len(jsonData[i + 1]) >= 5 /\ AcceptsHeader(TempIndices(HeaderTexts(jsonData[i + 1])))
    THEN i
    ELSE FindHeaderRow(jsonData, i + 1)

\* const FALLBACK_COLUMN_INDICES
FALLBACK_COLUMN_INDICES ==
    [ term |-> 0, mileage |-> 1, manufacturer |-> 2, model |-> 3, p11d |-> 5, co2 |-> 10,
      insurance_group |-> 20, monthly_payment |-> 12, otr_price |-> 18, mpg |-> 26, cap_id |-> 25 ]

\* line 782: row && row.length > 10 && row[0] && !isNaN(parseFloat(row[0])) && row[2]
LooksLikeData(jsonRow) ==
    /\ Len(jsonRow) > 10
    /\ Truthy(jsonRow[1])
    /\ jsonRow[1].t = "string" => ~IsNaN(parseFloat(jsonRow[1].s))
    /\ Truthy(jsonRow[3])

\* lines 778-787: headerRowIndex when the fallback indices are used
RECURSIVE FallbackHeaderRow(_, _)
FallbackHeaderRow(jsonData, i) ==
    IF i >= Min(10, Len(jsonData)) THEN 2
    ELSE IF LooksLikeData(jsonData[i + 1]) THEN i - 1
    ELSE FallbackHeaderRow(jsonData, i + 1)

\* lines 795-806: a rental column guessed from the header row when none is mapped
GuessMonthly(t, normalized, candidates) ==
    LET preferred == FindIndex({c \in candidates : IsPreferred(normalized[c])})
        guess == IF preferred # -1 THEN preferred ELSE FindIndex(candidates)
    IN  IF ~Has(t, "monthly_payment") /\ guess # -1
        THEN [k \in DOMAIN t \cup {"monthly_payment"} |->
                 IF k = "monthly_payment" THEN guess ELSE t[k]]
        ELSE t

GuessedFrom(t, normalized) ==
    GuessMonthly(t, normalized, {c \in 1..Len(normalized) : IsRentalCandidate(normalized[c])})

\* lines 738-806: headerRowIndex and columnIndices, found being what the
\* loop over the first rows found
LocatedAt(jsonData, found) ==
    IF found = -1
    THEN [ headerRowIndex |-> FallbackHeaderRow(jsonData, 3),
           columnIndices |-> FALLBACK_COLUMN_INDICES, fallback |-> TRUE ]
    ELSE [ headerRowIndex |-> found,
           columnIndices |-> GuessedFrom(TempIndices(HeaderTexts(jsonData[found + 1])),
                                         Normalized(HeaderTexts(jsonData[found + 1]))),
           fallback |-> FALSE ]

Located(jsonData) == LocatedAt(jsonData, FindHeaderRow(jsonData, 0))

\* row[columnIndices.key]
CellAtColumn(jsonRow, columnIndices, key) ==
    IF Has(columnIndices, key) /\ columnIndices[key] < Len(jsonRow)
    THEN jsonRow[columnIndices[key] + 1]
    ELSE Undefined

\* lines 826-846: the vehicle of a row
HandlerRowVehicle(jsonRow, columnIndices) ==
    BuildVehicle([f \in HandlerFields |-> CellAtColumn(jsonRow, columnIndices, f)])

\* line 868, negated
HandlerKept(v) == Truthy(v.manufacturer) \/ Truthy(v.model) \/ Truthy(v.monthly_payment)

\* lines 885-888
Weighted(baseScore, igScore, insuranceWeight) ==
    IF Lt(Zero, insuranceWeight)
    THEN Round1(Add(Mul(baseScore, Sub(Num(1), insuranceWeight)),
                    Mul(Nullish(igScore, Num(50)), insuranceWeight)))
    ELSE baseScore

\* lines 879-891: the vehicle as it is pushed on vehicles
HandlerScored(v, at, insuranceWeight) ==
    [ vehicle |-> v, row |-> at,
      igScore |-> InsuranceScore(parseNumeric(v.insurance_group)),
      score |-> Weighted(calculateScore(v), InsuranceScore(parseNumeric(v.insurance_group)),
                         insuranceWeight) ]

\* lines 819-894: the vehicles of the rows from 0-based index i on
RECURSIVE HandlerVehicles(_, _, _, _)
HandlerVehicles(jsonData, columnIndices, i, insuranceWeight) ==
    IF i >= Len(jsonData) THEN << >>
    ELSE IF Len(jsonData[i + 1]) # 0
            /\ HandlerKept(HandlerRowVehicle(jsonData[i + 1], columnIndices))
    THEN <<HandlerScored(HandlerRowVehicle(jsonData[i + 1], columnIndices), i, insuranceWeight)>>
         \o HandlerVehicles(jsonData, columnIndices, i + 1, insuranceWeight)
    ELSE HandlerVehicles(jsonData, columnIndices, i + 1, insuranceWeight)

\* lines 920-927: the comparator of vehicles.sort
HandlerCompare(a, b) ==
    IF Le(Num(1), Sub(b.score, a.score)) \/ Le(Num(1), Sub(a.score, b.score))
    THEN Sub(b.score, a.score)
    ELSE IF Nullish(b.igScore, Zero) # Nullish(a.igScore, Zero)
    THEN Sub(Nullish(b.igScore, Zero), Nullish(a.igScore, Zero))
    ELSE Sub(parseNumeric(a.vehicle.monthly_payment), parseNumeric(b.vehicle.monthly_payment))

HandlerBefore(a, b) == Lt(HandlerCompare(a, b), Zero)

HandlerTied(a, b) == HandlerCompare(a, b) = Zero

HandlerConsistent(vs) ==
    \A i, j, k \in 1..Len(vs) :
        /\ HandlerBefore(vs[i], vs[j]) /\ HandlerBefore(vs[j], vs[k]) => HandlerBefore(vs[i], vs[k])
        /\ HandlerTied(vs[i], vs[j]) /\ HandlerTied(vs[j], vs[k]) => HandlerTied(vs[i], vs[k])

RECURSIVE HandlerInsert(_, _)
HandlerInsert(sorted, x) ==
    IF sorted = << >> THEN <<x>>
    ELSE IF ~HandlerBefore(x, sorted[Len(sorted)]) THEN Append(sorted, x)
    ELSE Append(HandlerInsert(SubSeq(sorted, 1, Len(sorted) - 1), x), sorted[Len(sorted)])

RECURSIVE HandlerSort(_)
HandlerSort(vs) ==
    IF vs = << >> THEN << >>
    ELSE HandlerInsert(HandlerSort(SubSeq(vs, 1, Len(vs) - 1)), vs[Len(vs)])

\* line 920: what vehicles.sort(...) can leave, as for the sort of minHeap
HandlerSorted(vs) ==
    IF HandlerConsistent(vs) THEN { HandlerSort(vs) }
    ELSE { [i \in 1..Len(vs) |-> vs[p[i]]] : p \in Permutations(1..Len(vs)) }

RECURSIVE SumScores(_)
SumScores(vs) ==
    IF vs = << >> THEN Zero ELSE Add(vs[Len(vs)].score, SumScores(SubSeq(vs, 1, Len(vs) - 1)))

RECURSIVE MaxScore(_)
MaxScore(vs) ==
    IF Len(vs) = 1 THEN vs[1].score
    ELSE MaxOf(vs[Len(vs)].score, MaxScore(SubSeq(vs, 1, Len(vs) - 1)))

CountIn(vs, bucket) == Cardinality({i \in 1..Len(vs) : Bucket(vs[i].score) = bucket})

\* lines 930-942
HandlerStats(vs) ==
    [ totalVehicles |-> Len(vs),
      averageScore |-> Round1(Div(SumScores(vs), Num(Len(vs)))),
      topScore |-> MaxScore(vs),
      scoreDistribution |->
          [b \in {"exceptional", "excellent", "good", "fair", "poor"} |-> CountIn(vs, b)] ]

\* lines 945-948: a top deal, its score the one computeScoreBreakdown returns
TopDeal(v, b) ==
    [ vehicle |-> v.vehicle, row |-> v.row, igScore |-> v.igScore, score |-> b.score,
      scoreInfo |-> getScoreCategory(b.score), scoreBreakdown |-> b.breakdown ]

\* lines 951-960: v.manufacturer.substring and v.model.substring are called
\* on whatever the cell was; a number has no substring method
LightThrows(vs) ==
    \E i \in 1..Min(Len(vs), LightLimit) :
        vs[i].vehicle.manufacturer.t # "string" \/ vs[i].vehicle.model.t # "string"

\* lines 929-1010: the response for the sorted vehicles
Responded(loc, sorted) ==
    IF LightThrows(sorted)
    THEN [ statusCode |-> 500, error |-> "Failed to analyze file" ]
    ELSE [ statusCode |-> 200, success |-> TRUE,
           stats |-> HandlerStats(sorted),
           topDeals |-> [i \in 1..Min(Len(sorted), TopLimit) |->
                            TopDeal(sorted[i], computeScoreBreakdown(sorted[i].vehicle))],
           allVehicles |-> [i \in 1..Min(Len(sorted), LightLimit) |->
                            [ s |-> sorted[i].score, row |-> sorted[i].row ]],
           columnMappings |-> loc.columnIndices,
           headerRowIndex |-> loc.headerRowIndex,
           fallback |-> loc.fallback ]

\* lines 896-917 and 919-1010
RespondedFor(loc, vs) ==
    IF Len(vs) = 0
    THEN { [ statusCode |-> 400, error |-> "No valid vehicle data found in the file" ] }
    ELSE { Responded(loc, sorted) : sorted \in HandlerSorted(vs) }

HandledAt(jsonData, loc, insuranceWeight) ==
    RespondedFor(loc, HandlerVehicles(jsonData, loc.columnIndices, loc.headerRowIndex + 1,
                                      insuranceWeight))

\* exports.handler for a POST of the file with the number insuranceWeight
\* as options.insuranceWeight: the responses it can return. The weight is
\* clamped at line 686 as scoreVehicle clamps it.
handler(lines, numeric, insuranceWeight) ==
    IF Len(lines) < 2
    THEN { [ statusCode |-> 400, error |-> "File must contain at least headers and one data row" ] }
    ELSE HandledAt(JsonData(lines, numeric), Located(JsonData(lines, numeric)),
                   ClampWeight(insuranceWeight))

\* The cells of the three-vehicle sheet
SheetCellText ==
    [ MANUFACTURER |-> <<"M","A","N","U","F","A","C","T","U","R","E","R">>,   \* "MANUFACTURER"
      MODEL |-> <<"M","O","D","E","L">>,   \* "MODEL"
      P11D |-> <<"P","1","1","D">>,   \* "P11D"
      MONTHLY_PAYMENT |-> <<"M","O","N","T","H","L","Y"," ","P","A","Y","M","E","N","T">>,   \* "MONTHLY PAYMENT"
      MPG |-> <<"M","P","G">>,   \* "MPG"
      CO2 |-> <<"C","O","2">>,   \* "CO2"
      TERM |-> <<"T","E","R","M">>,   \* "TERM"
      MILEAGE |-> <<"M","I","L","E","A","G","E">>,   \* "MILEAGE"
      title |-> <<"R","a","t","e"," ","s","h","e","e","t">>,   \* "Rate sheet"
      BMW |-> <<"B","M","W">>,   \* "BMW"
      v320d |-> <<"3","2","0","d">>,   \* "320d"
      v35000 |-> <<"3","5","0","0","0">>,   \* "35000"
      v450 |-> <<"4","5","0">>,   \* "450"
      v55_4 |-> <<"5","5",".","4">>,   \* "55.4"
      v120 |-> <<"1","2","0">>,   \* "120"
      AUDI |-> <<"A","U","D","I">>,   \* "AUDI"
      A4 |-> <<"A","4">>,   \* "A4"
      v32000 |-> <<"3","2","0","0","0">>,   \* "32000"
      v420 |-> <<"4","2","0">>,   \* "420"
      v58_9 |-> <<"5","8",".","9">>,   \* "58.9"
      v115 |-> <<"1","1","5">>,   \* "115"
      FORD |-> <<"F","O","R","D">>,   \* "FORD"
      Focus |-> <<"F","o","c","u","s">>,   \* "Focus"
      v22000 |-> <<"2","2","0","0","0">>,   \* "22000"
      v300 |-> <<"3","0","0">>,   \* "300"
      v45 |-> <<"4","5">>,   \* "45"
      v130 |-> <<"1","3","0">>,   \* "130"
      v36 |-> <<"3","6">>,   \* "36"
      v10000 |-> <<"1","0","0","0","0">>,   \* "10000"
      OTR |-> <<"O","T","R">>,   \* "OTR"
      v0 |-> <<"0">>,   \* "0"
      INSURANCE_GROUP |-> <<"I","N","S","U","R","A","N","C","E"," ","G","R","O","U","P">>,   \* "INSURANCE GROUP"
      NET_RENTAL_CM |-> <<"N","E","T"," ","R","E","N","T","A","L"," ","C","M">>,   \* "NET RENTAL CM"
      NET_RENTAL_WM |-> <<"N","E","T"," ","R","E","N","T","A","L"," ","W","M">>,   \* "NET RENTAL WM"
      v400 |-> <<"4","0","0">>,   \* "400"
      v380 |-> <<"3","8","0">>,   \* "380"
      v20 |-> <<"2","0">>,   \* "20"
      v51 |-> <<"5","1">> ]   \* "51"

\* The header of the three-vehicle sheet, and the same with the term and
\* the mileage in front
SheetHeader ==
    <<SheetCellText.MANUFACTURER, SheetCellText.MODEL, SheetCellText.P11D,
      SheetCellText.MONTHLY_PAYMENT, SheetCellText.MPG, SheetCellText.CO2>>

SheetLines ==
    << <<SheetCellText.BMW, SheetCellText.v320d, SheetCellText.v35000, SheetCellText.v450,
         SheetCellText.v55_4, SheetCellText.v120>>,
       <<SheetCellText.AUDI, SheetCellText.A4, SheetCellText.v32000, SheetCellText.v420,
         SheetCellText.v58_9, SheetCellText.v115>>,
       <<SheetCellText.FORD, SheetCellText.Focus, SheetCellText.v22000, SheetCellText.v300,
         SheetCellText.v45, SheetCellText.v130>> >>

TermAndMileage == <<SheetCellText.v36, SheetCellText.v10000>>

\* The lines that come before a header: an empty line, a title, and a title
\* followed by empty cells
JunkLines ==
    { << << >> >>, <<SheetCellText.title>>,
      <<SheetCellText.title, << >>, << >>, << >>, << >>, << >> >> }

\* Most lines before the header
MaxPreamble == 2

Preambles == UNION { RowsOfLen(JunkLines, n) : n \in 0..MaxPreamble }

\* A sheet with a P11D, an OTR and an insurance group column: the P11D of
\* the first vehicle is "0", that of the second is empty, that of the third
\* is given; the first is in group 20, the second in a group outside 1..50
\* and the third has none
OtrSheet ==
    << <<SheetCellText.TERM, SheetCellText.MILEAGE, SheetCellText.MANUFACTURER, SheetCellText.MODEL,
         SheetCellText.P11D, SheetCellText.OTR, SheetCellText.MONTHLY_PAYMENT,
         SheetCellText.INSURANCE_GROUP>>,
       TermAndMileage \o <<SheetCellText.BMW, SheetCellText.v320d, SheetCellText.v0,
                            SheetCellText.v35000, SheetCellText.v450, SheetCellText.v20>>,
       TermAndMileage \o <<SheetCellText.AUDI, SheetCellText.A4, << >>,
                            SheetCellText.v32000, SheetCellText.v420, SheetCellText.v51>>,
       TermAndMileage \o <<SheetCellText.FORD, SheetCellText.Focus, SheetCellText.v22000,
                            SheetCellText.v22000, SheetCellText.v300, << >> >> >>

\* A sheet with a customer rental and a wholesale rental column: the second
\* vehicle has no customer rental
TwoRentalSheet ==
    << <<SheetCellText.TERM, SheetCellText.MILEAGE, SheetCellText.MANUFACTURER, SheetCellText.MODEL,
         SheetCellText.P11D, SheetCellText.NET_RENTAL_CM, SheetCellText.NET_RENTAL_WM>>,
       TermAndMileage \o <<SheetCellText.BMW, SheetCellText.v320d, SheetCellText.v35000,
                            SheetCellText.v450, SheetCellText.v400>>,
       TermAndMileage \o <<SheetCellText.AUDI, SheetCellText.A4, SheetCellText.v32000,
                            << >>, SheetCellText.v380>> >>

\* The three-vehicle sheet with the term and mileage columns, after a line
\* that names the manufacturer and the model and nothing else
ShortHeaderFile ==
    << <<SheetCellText.MANUFACTURER, SheetCellText.MODEL>>,
       <<SheetCellText.TERM, SheetCellText.MILEAGE>> \o SheetHeader >>
    \o [i \in 1..Len(SheetLines) |-> TermAndMileage \o SheetLines[i]]

\* A line of the three-vehicle sheet in the column order of the fallback
\* table: term, mileage, manufacturer, model, P11D at 5, CO2 at 10 and the
\* customer rental at 12
FallbackLine(line) ==
    TermAndMileage \o <<line[1], line[2], << >>, line[3], << >>, << >>, << >>, << >>, line[6],
                        << >>, line[4]>>

\* How many lines the file without a header has
HeaderlessLines == 4

\* The file without a header: its lines are vehicles from the first on
HeaderlessFile ==
    [i \in 1..HeaderlessLines |-> FallbackLine(SheetLines[((i - 1) % Len(SheetLines)) + 1])]

\* The files: a preamble, then the three-vehicle sheet as it is or with
\* the term and mileage columns; the sheet with the OTR column; and the
\* sheet after a two-cell line; the file without a header; and the sheet
\* with two rental columns
Files ==
    { pre \o <<SheetHeader>> \o SheetLines : pre \in Preambles }
    \cup { pre \o << <<SheetCellText.TERM, SheetCellText.MILEAGE>> \o SheetHeader >>
               \o [i \in 1..Len(SheetLines) |-> TermAndMileage \o SheetLines[i]] :
           pre \in Preambles }
    \cup { OtrSheet, ShortHeaderFile, HeaderlessFile, TwoRentalSheet }

FileInit ==
    /\ sheet \in Files
    /\ cursor = 0
    /\ response = Null

FileIdle ==
    /\ sheet = << >>
    /\ cursor = 0
    /\ response = Null

\* onDrop hands a file above 8 MB to analyzeCsv (LexUpload.js 497-499)
StartLocal ==
    /\ IsNull(response)
    /\ Start

\* the streamer comes to the next line of the file and hands it to onRow,
\* unless it is an empty line (LexUpload.js 31)
DeliverRow ==
    /\ runpc = "streaming"
    /\ cursor < Len(sheet)
    /\ cursor' = cursor + 1
    /\ locals' = IF Deliverable(sheet[cursor + 1]) /\ ~cancelled
                 THEN onRow(locals, sheet[cursor + 1], useInsuranceWeight)
                 ELSE locals
    /\ scored' = IF Deliverable(sheet[cursor + 1]) /\ ~cancelled /\ Scores(locals, sheet[cursor + 1])
                 THEN InsertDescending(scored, ScoredRow(RowVehicle(sheet[cursor + 1], locals.indices),
                                                         useInsuranceWeight))
                 ELSE scored
    /\ UNCHANGED <<sheet, response>>
    /\ UNCHANGED <<calls, results, parsing, cancelled, runpc>>
    /\ UNCHANGED <<streamVars, colVars, scoreVars, pageVars>>

\* the streamer resolves after the last line
EndOfFile ==
    /\ cursor = Len(sheet)
    /\ Finalize

\* onDrop hands any other file to analyzeCsvViaFunction, which posts it to
\* the function with options.insuranceWeight (LexUpload.js 453-476, 500)
Handle ==
    /\ runpc = "ready"
    /\ IsNull(response)
    /\ \E numeric \in BOOLEAN :
          response' \in handler(sheet, numeric, Opts(useInsuranceWeight).insuranceWeight)
    /\ UNCHANGED <<sheet, cursor>>
    /\ UNCHANGED <<streamVars, colVars, scoreVars, runVars, pageVars>>

FileNext == ToggleInsuranceWeight \/ StartLocal \/ DeliverRow \/ ReadError \/ EndOfFile \/ Handle

-----------------------------------------------------------------------------
(* The page with its Flexible tab (App of part_001): the field mapping and  *)
(* handleProceed of FlexibleUpload, and the handlers of the page            *)

\* STANDARD_FIELDS: the four required fields and one of the optional ones
STANDARD_FIELDS ==
    [ manufacturer |-> [required |-> TRUE], model |-> [required |-> TRUE],
      monthly_rental |-> [required |-> TRUE], p11d |-> [required |-> TRUE],
      otr_price |-> [required |-> FALSE] ]

\* How many columns the dropped file has
MaxHeaders == 2

\* A value of fieldMappings: << >> is undefined, <<i>> the header index i
NoIndex == << >>

\* What the provider name field can hold: nothing, a blank, a name
ProviderNames == { << >>, <<" ">>, <<"A">> }

\* The messages handed to onError
Message ==
    [ rejected |-> "Please upload a CSV or XLSX file",
      xlsx |-> "XLSX support coming soon. Please use CSV format for now.",
      missing |-> "Please map required fields",
      provider |-> "Please enter a provider name",
      supabase |-> "processWithSupabase failed",
      blob |-> "Failed to execute 'readAsText' on 'FileReader'",
      analysis |-> "analysis failed",
      undefined |-> "undefined" ]

\* useState of FlexibleUpload
UploadFresh ==
    [ uploadState |-> "idle", fieldMappings |-> [f \in DOMAIN STANDARD_FIELDS |-> NoIndex],
      providerName |-> << >>, useDatabaseStorage |-> TRUE ]

handleAnalysisComplete(p, r) == [p EXCEPT !.analysisResults = r, !.loading = FALSE, !.error = "null"]

handleAnalysisStart(p) == [p EXCEPT !.loading = TRUE, !.error = "null", !.analysisResults = "null"]

handleError(p, errorMessage) ==
    [p EXCEPT !.error = errorMessage, !.loading = FALSE, !.analysisResults = "null"]

resetApp(p) == [p EXCEPT !.analysisResults = "null", !.loading = FALSE, !.error = "null"]

\* {!analysisResults && !loading && (...)}: the tabs and the upload
\* component of the selected tab are rendered
TabsShown(p) == p.analysisResults = "null" /\ ~p.loading

\* FlexibleUpload is mounted
Mounted(p) == TabsShown(p) /\ p.providerTab = "Flexible"

\* {error && (...)}: the error panel is rendered
ErrorShown(p) == p.error \notin {"null", "undefined"}

\* const validateMapping: requiredFields.filter(field => !fieldMappings[field]),
\* and !v holds of undefined and of 0
validateMapping(fieldMappings) ==
    {f \in {key \in DOMAIN STANDARD_FIELDS : STANDARD_FIELDS[key].required} :
         fieldMappings[f] \in {NoIndex, <<0>>}}

\* The page is rendered as q, the handlers of the mounted FlexibleUpload
\* having left its state as u and its pending awaits as pp and pr. An
\* instance that is no longer rendered is unmounted: its state is lost, the
\* next one starts afresh, and what it still awaits finds it unmounted
Render(q, u, pp, pr) ==
    /\ page' = q
    /\ upload' = IF Mounted(page) /\ ~Mounted(q) THEN UploadFresh ELSE u
    /\ parsepc' = IF Mounted(page) /\ ~Mounted(q) /\ pp = "mounted" THEN "unmounted" ELSE pp
    /\ proceedpc' = IF Mounted(page) /\ ~Mounted(q) /\ pr = "mounted" THEN "unmounted" ELSE pr

PageInit ==
    /\ page = [providerTab |-> "Flexible", analysisResults |-> "null", loading |-> FALSE, error |-> "null"]
    /\ upload = UploadFresh
    /\ parsepc = "none"
    /\ proceedpc = "none"
    /\ flexpc = "none"
    /\ lexpc = "none"

PageIdle == PageInit

\* a tab button is clicked
SelectTab ==
    /\ TabsShown(page)
    /\ \E tab \in {"Flexible", "Lex"} :
           Render(resetApp([page EXCEPT !.providerTab = tab]), upload, parsepc, proceedpc)
    /\ UNCHANGED <<flexpc, lexpc>>
    /\ UNCHANGED notPage

\* "Try Again" of the error panel, or onReset of ResultsDisplay
ResetApp ==
    /\ ErrorShown(page) \/ page.analysisResults # "null"
    /\ Render(resetApp(page), upload, parsepc, proceedpc)
    /\ UNCHANGED <<flexpc, lexpc>>
    /\ UNCHANGED notPage

\* the upload component of the Lex tab starts an analysis
StartAnalysis ==
    /\ TabsShown(page)
    /\ page.providerTab = "Lex"
    /\ lexpc = "none"
    /\ lexpc' = "running"
    /\ Render(handleAnalysisStart(page), upload, parsepc, proceedpc)
    /\ UNCHANGED flexpc
    /\ UNCHANGED notPage

\* and ends it, with a report or with an error
AnalysisEnds ==
    /\ lexpc = "running"
    /\ lexpc' = "none"
    /\ \/ Render(handleAnalysisComplete(page, "Lex"), upload, parsepc, proceedpc)
       \/ Render(handleError(page, Message.analysis), upload, parsepc, proceedpc)
    /\ UNCHANGED flexpc
    /\ UNCHANGED notPage

\* loadSavedMappings of the mounted FlexibleUpload fails
LoadSavedMappingsFails ==
    /\ Mounted(page)
    /\ upload.useDatabaseStorage
    /\ upload' = [upload EXCEPT !.useDatabaseStorage = FALSE]
    /\ UNCHANGED <<page, parsepc, proceedpc, flexpc, lexpc>>
    /\ UNCHANGED notPage

\* onDrop: with a rejected file, or with an accepted one up to the await of
\* parseFileAsync
OnDrop ==
    /\ Mounted(page)
    /\ upload.uploadState = "idle"
    /\ parsepc = "none"
    /\ \/ Render(handleError(page, Message.rejected), upload, parsepc, proceedpc)
       \/ Render(page, [upload EXCEPT !.uploadState = "parsing"], "mounted", proceedpc)
    /\ UNCHANGED <<flexpc, lexpc>>
    /\ UNCHANGED notPage

\* parseFileAsync resolves, or rejects
ParseEnds ==
    /\ parsepc # "none"
    /\ \/ Render(page,
                 IF parsepc = "mounted" THEN [upload EXCEPT !.uploadState = "mapping"] ELSE upload,
                 "none", proceedpc)
       \/ Render(handleError(page, Message.xlsx),
                 IF parsepc = "mounted" THEN [upload EXCEPT !.uploadState = "idle"] ELSE upload,
                 "none", proceedpc)
    /\ UNCHANGED <<flexpc, lexpc>>
    /\ UNCHANGED notPage

\* the select of a field is changed: parseInt(e.target.value) is -1 or the
\* index of a header
HandleFieldMapping ==
    /\ Mounted(page)
    /\ upload.uploadState = "mapping"
    /\ \E standardField \in DOMAIN STANDARD_FIELDS, headerIndex \in -1..(MaxHeaders - 1) :
           upload' = [upload EXCEPT !.fieldMappings[standardField] =
                                        IF headerIndex = -1 THEN NoIndex ELSE <<headerIndex>>]
    /\ UNCHANGED <<page, parsepc, proceedpc, flexpc, lexpc>>
    /\ UNCHANGED notPage

SetProviderName ==
    /\ Mounted(page)
    /\ upload.uploadState = "mapping"
    /\ \E name \in ProviderNames : upload' = [upload EXCEPT !.providerName = name]
    /\ UNCHANGED <<page, parsepc, proceedpc, flexpc, lexpc>>
    /\ UNCHANGED notPage

ResetUpload ==
    /\ Mounted(page)
    /\ upload.uploadState = "mapping"
    /\ upload' = [UploadFresh EXCEPT !.useDatabaseStorage = upload.useDatabaseStorage]
    /\ UNCHANGED <<page, parsepc, proceedpc, flexpc, lexpc>>
    /\ UNCHANGED notPage

\* handleProceed up to its await. Without database storage it awaits
\* onMappingComplete, which is handleFlexibleMappingComplete up to its own
\* await of processFlexibleFile; one run is pending at a time
HandleProceed ==
    /\ Mounted(page)
    /\ upload.uploadState = "mapping"
    /\ proceedpc = "none" /\ flexpc = "none"
    /\ IF validateMapping(upload.fieldMappings) # {}
       THEN /\ Render(handleError(page, Message.missing), upload, parsepc, proceedpc)
            /\ UNCHANGED flexpc
       ELSE IF trim(upload.providerName) = << >>
       THEN /\ Render(handleError(page, Message.provider), upload, parsepc, proceedpc)
            /\ UNCHANGED flexpc
       ELSE IF upload.useDatabaseStorage
       THEN /\ Render(page, [upload EXCEPT !.uploadState = "processing"], parsepc, "mounted")
            /\ UNCHANGED flexpc
       ELSE /\ Render([page EXCEPT !.loading = TRUE], [upload EXCEPT !.uploadState = "processing"],
                      parsepc, proceedpc)
            /\ flexpc' = "reading"
    /\ UNCHANGED lexpc
    /\ UNCHANGED notPage

\* processWithSupabase resolves, and handleProceed hands the results to
\* onMappingComplete: handleFlexibleMappingComplete sets loading and calls
\* processFlexibleFile, where readAsText throws for want of mappingData.file,
\* so that the promise is rejected at once and handleError follows in the
\* next microtask. Whether the page is rendered with loading set in between,
\* which unmounts FlexibleUpload, or the two updates are batched into one
\* render, is up to the version of React. Or processWithSupabase rejects,
\* with an Error or with the event of reader.onerror
SupabaseEnds ==
    /\ proceedpc # "none"
    /\ \/ /\ page' = handleError([page EXCEPT !.loading = TRUE], Message.blob)
          /\ \/ /\ upload' = IF Mounted(page) THEN UploadFresh ELSE upload
                /\ parsepc' = IF Mounted(page) /\ parsepc = "mounted" THEN "unmounted" ELSE parsepc
                /\ proceedpc' = "none"
             \/ Render(handleError([page EXCEPT !.loading = TRUE], Message.blob), upload, parsepc, "none")
       \/ \E message \in {Message.supabase, Message.undefined} :
              Render(handleError(page, message),
                     IF proceedpc = "mounted" THEN [upload EXCEPT !.uploadState = "mapping"]
                     ELSE upload,
                     parsepc, "none")
    /\ UNCHANGED <<flexpc, lexpc>>
    /\ UNCHANGED notPage

\* processFlexibleFile resolves, or reader.onerror rejects it with its event,
\* and handleFlexibleMappingComplete goes on
FlexibleFileEnds ==
    /\ flexpc # "none"
    /\ flexpc' = "none"
    /\ \/ Render(handleAnalysisComplete(page, "Flexible"), upload, parsepc, proceedpc)
       \/ Render(handleError(page, Message.undefined), upload, parsepc, proceedpc)
    /\ UNCHANGED lexpc
    /\ UNCHANGED notPage

PageNext ==
    \/ SelectTab \/ ResetApp \/ StartAnalysis \/ AnalysisEnds \/ LoadSavedMappingsFails
    \/ OnDrop \/ ParseEnds \/ HandleFieldMapping \/ SetProviderName
    \/ ResetUpload \/ HandleProceed \/ SupabaseEnds \/ FlexibleFileEnds

-----------------------------------------------------------------------------
(* Specifications: each starts one part of the model and parks the others  *)

InitStream == StreamInit /\ ColIdle /\ ScoreIdle /\ RunIdle /\ FileIdle /\ PageIdle

SpecStream == InitStream /\ [][StreamNext]_vars

InitCols == ColInit /\ StreamIdle /\ ScoreIdle /\ RunIdle /\ FileIdle /\ PageIdle

SpecCols == InitCols /\ [][ColNext]_vars

InitScore == ScoreInit /\ StreamIdle /\ ColIdle /\ RunIdle /\ FileIdle /\ PageIdle

SpecScore == InitScore /\ [][ScoreNext]_vars

InitRun == RunInit /\ StreamIdle /\ ColIdle /\ ScoreIdle /\ FileIdle /\ PageIdle

SpecRun == InitRun /\ [][RunNext]_vars

\* A file has finitely many rows, so unless a read fails the streamer's
\* promise resolves and the continuation of analyzeCsv runs: weak fairness
\* of Finalize. Finalize is enabled in every streaming state and is the
\* one step from "streaming" to "done", which is how the condition is
\* written
StreamResolves == runpc = "streaming" /\ runpc' = "done"

SpecRunFair == SpecRun /\ WF_runpc(StreamResolves)

InitFile == FileInit /\ RunInit /\ StreamIdle /\ ColIdle /\ ScoreIdle /\ PageIdle

SpecFile == InitFile /\ [][FileNext]_vars

InitPage == PageInit /\ StreamIdle /\ ColIdle /\ ScoreIdle /\ RunIdle /\ FileIdle

SpecPage == InitPage /\ [][PageNext]_vars

-----------------------------------------------------------------------------
(* Claims                                                                  *)

\* What the same text delivers when it is read as one chunk
WholeRows(t) ==
    Flush(processText(t, [inQuotes |-> FALSE, field |-> << >>, row |-> << >>, out |-> << >>])).out

\* C1: whatever the chunk size, a completed stream has delivered exactly the
\* rows the same text delivers when it is read as a single chunk
C1_ChunkingPreservesRows == spc = "resolved" => delivered = WholeRows(text)

\* The cell, normalized, at a 0-based column of the candidate header row
CellAt(hs, i) == Normalized(hs)[i + 1]

HasCell(hs, key) == \E i \in 1..Len(hs) : Normalized(hs)[i] = key

NET_RENTAL_CM == H_NET_RENTAL_CM

NET_RENTAL_WM == trim(toUpperCase(H_net_rental_wm))

\* The names that come before NET RENTAL CM in COLUMN_MAPPINGS.monthly_cm:
\* RENTAL, LEASE_RENTAL and LEASE RENTAL
NamesBeforeCM ==
    LET names == COLUMN_MAPPINGS.monthly_cm
        at    == CHOOSE n \in 1..Len(names) : names[n] = NET_RENTAL_CM
    IN  {names[n] : n \in 1..(at - 1)}

BothRentals == HasCell(headers, NET_RENTAL_CM) /\ HasCell(headers, NET_RENTAL_WM)

\* C2 as claimed: a header row with a NET RENTAL CM cell and a NET RENTAL WM
\* cell, whatever its other cells, resolves the monthly payment to the CM
\* cell, in LexUpload (monthly_cm) and in the function (monthly_payment)
C2_AlwaysTheCMCell ==
    (cpc = "resolved" /\ BothRentals) =>
        /\ Has(idx, "monthly_cm")
        /\ CellAt(headers, idx.monthly_cm) = NET_RENTAL_CM
        /\ Has(tempIndices, "monthly_payment")
        /\ CellAt(headers, tempIndices.monthly_payment) = NET_RENTAL_CM

\* C2 as amended: with both cells in the row the monthly payment never
\* resolves to the WM cell; the function resolves it to a CM cell; LexUpload
\* resolves it to a CM cell unless some cell equals one of the names listed
\* before NET RENTAL CM, and then to such a cell
C2_NeverTheWMCell ==
    (cpc = "resolved" /\ BothRentals) =>
        /\ Has(idx, "monthly_cm")
        /\ CellAt(headers, idx.monthly_cm) # NET_RENTAL_WM
        /\ IF \E n \in NamesBeforeCM : HasCell(headers, n)
           THEN CellAt(headers, idx.monthly_cm) \in NamesBeforeCM
           ELSE CellAt(headers, idx.monthly_cm) = NET_RENTAL_CM
        /\ Has(tempIndices, "monthly_payment")
        /\ CellAt(headers, tempIndices.monthly_payment) = NET_RENTAL_CM

\* C2's case: a resolved row whose WM cell comes first and whose CM cell is
\* the column chosen by both resolvers
C2_Witness ==
    /\ cpc = "resolved"
    /\ BothRentals
    /\ CellAt(headers, 0) = NET_RENTAL_WM
    /\ Has(idx, "monthly_cm") /\ idx.monthly_cm > 0
    /\ CellAt(headers, idx.monthly_cm) = NET_RENTAL_CM
    /\ Has(tempIndices, "monthly_payment") /\ tempIndices.monthly_payment = idx.monthly_cm

\* A vehicle that has an identity and a monthly payment that parses to a
\* nonzero number
Retainable(v) ==
    /\ v.manufacturer # << >> \/ v.model # << >>
    /\ parseNumber(v.monthly_payment) # Zero

\* C3: every vehicle that has been scored, and so counted in the stats, and
\* every vehicle held in minHeap or lightHeap, has a manufacturer or a model
\* and a monthly payment that parses to a nonzero number
C3_OnlyRetainable ==
    /\ \A i \in 1..Len(scored) : Retainable(scored[i].vehicle)
    /\ \A i \in 1..Len(locals.minHeap) : Retainable(locals.minHeap[i].item.vehicle)
    /\ \A i \in 1..Len(locals.lightHeap) :
          /\ locals.lightHeap[i].item.m # << >> \/ locals.lightHeap[i].item.d # << >>
          /\ locals.lightHeap[i].item.p # 0

\* C4: a run that ends with no vehicle retained ends in an error: no report
\* is delivered whose stats.totalVehicles is 0
C4_NoEmptyReport ==
    /\ runpc = "done" => locals.totalVehicles > 0
    /\ ~IsNull(results) => results.stats.totalVehicles > 0

S_START == "onAnalysisStart"

S_COMPLETE == "onAnalysisComplete"

S_ERROR == "onError"

\* What has been called is in step with where the run is: nothing before it
\* starts, onAnalysisStart alone while it streams, then onAnalysisComplete
\* with a report, or onError without one
C5_InStep ==
    /\ runpc = "ready" => calls = << >> /\ IsNull(results)
    /\ runpc = "streaming" => calls = <<S_START>> /\ IsNull(results)
    /\ runpc = "done" => calls = <<S_START, S_COMPLETE>> /\ ~IsNull(results)
    /\ runpc = "failed" => calls = <<S_START, S_ERROR>> /\ IsNull(results)
    /\ parsing <=> runpc = "streaming"

C5_Started == calls = <<S_START>>

C5_Ended == calls \in {<<S_START, S_COMPLETE>>, <<S_START, S_ERROR>>}

\* C5: a run that has called onAnalysisStart goes on to call exactly one of
\* onAnalysisComplete and onError, once; a failed read gives onError and no
\* report, a stream that resolves gives onAnalysisComplete only
C5_OneOutcome == [](runpc # "idle" => C5_InStep) /\ (C5_Started ~> C5_Ended)

\* C5's case: a read has failed after vehicles were scored; onError has been
\* called after onAnalysisStart and nothing else, and there is no report
C5_Witness ==
    /\ runpc = "failed"
    /\ Len(scored) > 0
    /\ locals.totalVehicles > 0
    /\ calls = <<S_START, S_ERROR>>
    /\ IsNull(results)

\* The k best scores observed, best first (scored is kept best first)
BestScores(k) == [i \in 1..Min(k, Len(scored)) |-> scored[i].s]

\* The scores of a heap, the last entry first
ScoresFromLast(heap) == [i \in 1..Len(heap) |-> heap[Len(heap) + 1 - i].s]

\* The scores of the top deals of a report, best first
DealScores(deals) ==
    LET sorted == SortDescending([i \in 1..Len(deals) |-> [s |-> deals[i].score]])
    IN  [i \in 1..Len(sorted) |-> sorted[i].s]

\* C6: after every row minHeap holds at most TopLimit entries and lightHeap
\* at most LightLimit, and what each holds, and what the report delivers
\* from it, are the best scores observed: no score that was dropped is above
\* one that is retained
C6_BestRetained ==
    /\ Len(locals.minHeap) <= TopLimit
    /\ Len(locals.lightHeap) <= LightLimit
    /\ ScoresFromLast(locals.minHeap) = BestScores(TopLimit)
    /\ ScoresFromLast(locals.lightHeap) = BestScores(LightLimit)
    /\ ~IsNull(results) =>
          /\ DealScores(results.topDeals) = BestScores(TopLimit)
          /\ [i \in 1..Len(results.allVehicles) |-> results.allVehicles[i].s] = BestScores(LightLimit)

\* C6's case: a finished run that scored more vehicles than either heap
\* holds, the worst of them scoring below the worst one delivered
C6_Witness ==
    /\ runpc = "done"
    /\ Len(scored) > TopLimit
    /\ Len(scored) > LightLimit
    /\ Len(results.topDeals) = TopLimit
    /\ Len(results.allVehicles) = LightLimit
    /\ Lt(scored[Len(scored)].s, scored[TopLimit].s)
    /\ Lt(scored[Len(scored)].s, scored[LightLimit].s)

\* insuranceScore ?? 0 of a top deal
InsuranceOf(deal) == Nullish(deal.scoreBreakdown.components.insuranceScore, Zero)

CloserThanOne(a, b) == Lt(Sub(a.score, b.score), Num(1)) /\ Lt(Sub(b.score, a.score), Num(1))

\* C7: of two top deals whose scores differ by less than 1.0 the one with
\* the higher insurance score comes first, and with equal insurance scores
\* the one with the lower monthly payment
C7_TieBreak ==
    ~IsNull(results) =>
        \A i, j \in 1..Len(results.topDeals) :
            (i < j /\ CloserThanOne(results.topDeals[i], results.topDeals[j])) =>
                IF InsuranceOf(results.topDeals[i]) # InsuranceOf(results.topDeals[j])
                THEN Lt(InsuranceOf(results.topDeals[j]), InsuranceOf(results.topDeals[i]))
                ELSE Le(parseNumber(results.topDeals[i].vehicle.monthly_payment),
                        parseNumber(results.topDeals[j].vehicle.monthly_payment))

\* C8: totalVehicles is the number of vehicles scored, the five buckets sum
\* to it, and topScore is the highest score observed
C8_RunningStats ==
    /\ locals.totalVehicles = Len(scored)
    /\ locals.distribution.exceptional + locals.distribution.excellent + locals.distribution.good
         + locals.distribution.fair + locals.distribution.poor = locals.totalVehicles
    /\ Len(scored) > 0 => locals.topScore = scored[1].s

\* The same vehicle with its term and its mileage left out
Omitted(v) == [v EXCEPT !.term = << >>, !.mileage = << >>]

\* The defaultsApplied flags of a breakdown, Undefined when it carries none
DefaultsApplied(b) ==
    IF "defaultsApplied" \in DOMAIN b.inputs THEN b.inputs.defaultsApplied ELSE Undefined

ExplicitDefaults == scorepc = "fresh" /\ vehicle.term = Cell.v36 /\ vehicle.mileage = Cell.v10000

GivenFlags == [term |-> FALSE, mileage |-> FALSE]

DefaultedFlags == [term |-> TRUE, mileage |-> TRUE]

\* C9: a vehicle whose term is 36 and whose mileage is 10000 scores the same
\* as the same vehicle with both left out, and the two breakdowns tell the
\* cases apart: defaultsApplied is false for both when given, true for both
\* when defaulted. For scoreVehicle and for computeScoreBreakdown.
C9_DefaultsFlagged ==
    ExplicitDefaults =>
        /\ lexOut # Null =>
              LET other == scoreVehicle(Omitted(vehicle), Opts(useInsuranceWeight))
              IN  /\ lexOut.score = other.score
                  /\ DefaultsApplied(lexOut.scoreBreakdown) = GivenFlags
                  /\ DefaultsApplied(other.scoreBreakdown) = DefaultedFlags
        /\ breakdownOut # Null =>
              LET other == computeScoreBreakdown(HandlerVehicle(Omitted(vehicle), numericCells))
              IN  /\ breakdownOut.score = other.score
                  /\ DefaultsApplied(breakdownOut.breakdown) = GivenFlags
                  /\ DefaultsApplied(other.breakdown) = DefaultedFlags

\* The upper bounds of the cost bands and the score of each
BandBounds == <<30, 40, 50, 60, 70, 80>>

BandScores == <<100, 90, 75, 60, 40, 20>>

\* The score of the first band whose inclusive upper bound the ratio does
\* not exceed, 0 above the last
Band(ratio) ==
    LET within == {i \in 1..6 : Le(ratio, Num(BandBounds[i]))}
    IN  IF within = {} THEN 0
        ELSE BandScores[CHOOSE i \in within : \A j \in within : i <= j]

\* monthly * term / p11d * 100, for p11d # 0
Ratio(in) == Mul(Div(Mul(in.monthly, in.term), in.p11d), Num(100))

AllScored == scorepc = "fresh" /\ lexOut # Null /\ calcOut # Null /\ breakdownOut # Null

ScenarioFile == <<SheetHeader>> \o SheetLines

\* (monthly*36)/p11d of a line of the three-vehicle sheet
LineRatio(line) == Div(Mul(parseNumber(line[4]), Num(36)), parseNumber(line[3]))

LowestRatio ==
    CHOOSE r \in {LineRatio(SheetLines[i]) : i \in 1..Len(SheetLines)} :
        \A i \in 1..Len(SheetLines) : Le(r, LineRatio(SheetLines[i]))

BucketSum(d) == d.exceptional + d.excellent + d.good + d.fair + d.poor

\* What C11 says of a report of analyzeCsv
C11_OfReport(r) ==
    /\ r.stats.totalVehicles = 3
    /\ BucketSum(r.stats.scoreDistribution) = 3
    /\ Len(r.topDeals) > 0
    /\ Div(Mul(parseNumber(r.topDeals[1].vehicle.monthly_payment), Num(36)),
           parseNumber(r.topDeals[1].vehicle.p11d)) = LowestRatio

\* What C11 says of a response of the function
C11_OfResponse(r) ==
    /\ r.statusCode = 200
    /\ r.stats.totalVehicles = 3
    /\ BucketSum(r.stats.scoreDistribution) = 3
    /\ Len(r.topDeals) > 0
    /\ Div(Mul(parseNumeric(r.topDeals[1].vehicle.monthly_payment), Num(36)),
           parseNumeric(r.topDeals[1].vehicle.p11d)) = LowestRatio

\* C11: the file with header MANUFACTURER,MODEL,P11D,MONTHLY PAYMENT,MPG,CO2
\* and the rows BMW,320d,35000,450,55.4,120 / AUDI,A4,32000,420,58.9,115 /
\* FORD,Focus,22000,300,45,130 gives totalVehicles 3, buckets that sum to 3,
\* and top deals led by the record with the lowest (monthly*36)/p11d,
\* whether analyzeCsv reads it or the function does
C11_ThreeVehicleSheet ==
    sheet = ScenarioFile =>
        /\ runpc = "done" => C11_OfReport(results)
        /\ ~IsNull(response) => C11_OfResponse(response)

\* The header lines of the files
IsSheetHeader(line) == \E c \in 1..Len(line) : line[c] = SheetCellText.MANUFACTURER

\* How many lines come before the header line of the file
PreambleLength ==
    IF \E i \in 1..Len(sheet) : IsSheetHeader(sheet[i])
    THEN (CHOOSE i \in 1..Len(sheet) : IsSheetHeader(sheet[i])) - 1
    ELSE Len(sheet)

\* The lines before the header are below the header threshold of onRow,
\* those that reach onRow at all
BelowThreshold ==
    \A i \in 1..PreambleLength :
        Deliverable(sheet[i]) => ~IsHeader(buildColumnIndices(Candidate(sheet[i])))

\* The same for the function, whose header line has to meet its threshold
BelowHandlerThreshold(jsonData) ==
    /\ \A i \in 1..PreambleLength : ~AcceptsHeader(TempIndices(HeaderTexts(jsonData[i])))
    /\ AcceptsHeader(TempIndices(HeaderTexts(jsonData[PreambleLength + 1])))

-----------------------------------------------------------------------------
(* cancelledRef: useRef(false) at line 298, reset to false by analyzeCsv at *)
(* line 311 and read by onRow at line 330. No statement of the component    *)
(* assigns true to it, so every run sees it false from start to end.        *)
NeverCancelled == ~cancelled

-----------------------------------------------------------------------------
(* The range of the final score                                            *)

InRange(score) == Le(Zero, score) /\ Le(score, Num(100))

\* C15: the final score of every record, under either insurance weight the
\* component passes, lies between 0 and 100, whichever of scoreVehicle,
\* calculateScore and computeScoreBreakdown computed it.
C15_ScoreInRange ==
    /\ ~IsNull(lexOut) => InRange(lexOut.score)
    /\ ~IsNull(calcOut) => InRange(calcOut.returned)
    /\ ~IsNull(breakdownOut) => InRange(breakdownOut.score)

-----------------------------------------------------------------------------
(* Exact matches before substring matches                                  *)

\* the names, by position in the list, that some cell of the row equals
ExactNames(hs, names) ==
    {n \in 1..Len(names) : HasCell(hs, trim(toUpperCase(names[n])))}

\* the names, by position in the list, that some cell of the row contains
SubstringNames(hs, names) ==
    {n \in 1..Len(names) :
        \E c \in 1..Len(hs) : includes(Normalized(hs)[c], trim(toUpperCase(names[n])))}

First(ns) == CHOOSE n \in ns : \A m \in ns : n <= m

\* the column a key maps to, -1 when it is unmapped
IndexOf(indices, k) == IF Has(indices, k) THEN indices[k] ELSE -1

\* The column i is the one the claim gives the names: a cell equal to the
\* first name that has an equal cell; failing that, a cell containing the
\* first name that some cell contains; unmapped only when there is neither
ExactBeatsSubstring(i, hs, names) ==
    IF ExactNames(hs, names) # {}
    THEN /\ i # -1
         /\ CellAt(hs, i) = trim(toUpperCase(names[First(ExactNames(hs, names))]))
    ELSE IF SubstringNames(hs, names) # {}
    THEN /\ i # -1
         /\ includes(CellAt(hs, i), trim(toUpperCase(names[First(SubstringNames(hs, names))])))
    ELSE TRUE

LexUploadExactFirst ==
    \A k \in DOMAIN COLUMN_MAPPINGS :
        ExactBeatsSubstring(IndexOf(idx, k), headers, COLUMN_MAPPINGS[k])

HandlerExactFirst ==
    \A k \in DOMAIN HANDLER_COLUMN_MAPPINGS :
        ExactBeatsSubstring(IndexOf(tempIndices, k), headers, HANDLER_COLUMN_MAPPINGS[k])

EarlierExactFirst ==
    \A k \in EarlierKeys :
        ExactBeatsSubstring(IndexOf(earlierIndices, k), headers, HANDLER_COLUMN_MAPPINGS[k])

\* C16: in each of the three resolvers a field maps to the cell that equals
\* the first of its names to have an equal cell, wherever that cell sits in
\* the row, column 0 included; only when no name has an equal cell does it
\* map to a cell that contains a name, and it is unmapped only when no cell
\* equals or contains any of its names.
C16_ExactFirstEverywhere ==
    cpc = "resolved" => LexUploadExactFirst /\ HandlerExactFirst /\ EarlierExactFirst

-----------------------------------------------------------------------------
(* The OTR price standing in for a P11D that parses to 0                   *)

\* A line of the file whose P11D cell parses to 0 and whose OTR cell parses
\* to a positive number, under the column map of LexUpload
ProxyLine(arr, indices) ==
    /\ parseNumber(Get(arr, indices, "p11d")) = Zero
    /\ Lt(Zero, parseNumber(Get(arr, indices, "otr")))

\* The same under the column map of the function
HandlerProxyLine(arr, columnIndices) ==
    /\ parseNumeric(Str(Get(arr, columnIndices, "p11d"))) = Zero
    /\ Lt(Zero, parseNumeric(Str(Get(arr, columnIndices, "otr_price"))))

\* The breakdown carries a flag of the substitution among the flags of the
\* defaults it applied
RecordsProxy(b) ==
    /\ "defaultsApplied" \in DOMAIN b.inputs
    /\ \E f \in DOMAIN b.inputs.defaultsApplied \ {"term", "mileage"} :
           b.inputs.defaultsApplied[f] = TRUE

\* the deal of a report that was built from the line
DealsOfLine(deals, arr, indices) ==
    {i \in 1..Len(deals) : deals[i].vehicle.manufacturer = Get(arr, indices, "manufacturer")}

LexUploadProxies ==
    (runpc = "done" /\ ~IsNull(results)) =>
        \A j \in 1..Len(sheet) :
            ProxyLine(sheet[j], locals.indices) =>
                \E i \in DealsOfLine(results.topDeals, sheet[j], locals.indices) :
                    /\ results.topDeals[i].vehicle.p11d = Get(sheet[j], locals.indices, "otr")
                    /\ results.topDeals[i].scoreBreakdown.inputs.p11d
                           = parseNumber(Get(sheet[j], locals.indices, "otr"))
                    /\ RecordsProxy(results.topDeals[i].scoreBreakdown)

HandlerProxied(deal, arr, columnIndices) ==
    HandlerProxyLine(arr, columnIndices) =>
        deal.scoreBreakdown.inputs.p11d = parseNumeric(Str(Get(arr, columnIndices, "otr_price")))

HandlerProxies ==
    (~IsNull(response) /\ response.statusCode = 200) =>
        \A i \in 1..Len(response.topDeals) :
            /\ HandlerProxied(response.topDeals[i], sheet[response.topDeals[i].row + 1],
                              response.columnMappings)
            /\ HandlerProxyLine(sheet[response.topDeals[i].row + 1], response.columnMappings)
                   => RecordsProxy(response.topDeals[i].scoreBreakdown)

\* C17: a vehicle whose P11D cell parses to 0 and whose OTR cell parses to a
\* positive number is scored with the OTR price as its P11D, and its score
\* breakdown records that the OTR price stood in for the P11D; in the report
\* of analyzeCsv and in the response of the function.
C17_OtrStandsIn == LexUploadProxies /\ HandlerProxies

-----------------------------------------------------------------------------
(* A monthly payment or a P11D that parses to 0                            *)

\* the vehicle's monthly payment or P11D parses to 0 in LexUpload
LexHardFailure(v) == parseNumber(v.monthly_payment) = Zero \/ parseNumber(v.p11d) = Zero

\* the same in the function, the OTR price having stood in where it could
HandlerHardFailure(v) == parseNumeric(v.monthly_payment) = Zero \/ parseNumeric(v.p11d) = Zero

\* C18: a vehicle whose monthly payment or P11D parses to 0 is scored
\* without an exception, with a cost-efficiency sub-score of 0 and an
\* overall score of 0, by scoreVehicle, calculateScore and
\* computeScoreBreakdown alike.
C18_HardFailureScoresZero ==
    /\ (~IsNull(lexOut) /\ LexHardFailure(vehicle)) =>
           /\ lexOut.scoreBreakdown.components.costEfficiencyScore = Zero
           /\ lexOut.score = Zero
    /\ (~IsNull(calcOut) /\ HandlerHardFailure(HandlerVehicle(vehicle, numericCells))) =>
           calcOut.returned = Zero
    /\ (~IsNull(breakdownOut) /\ HandlerHardFailure(HandlerVehicle(vehicle, numericCells))) =>
           /\ breakdownOut.breakdown.components.costEfficiencyScore = Zero
           /\ breakdownOut.score = Zero

-----------------------------------------------------------------------------
(* The weights of scoreVehicle with and without an electric range          *)

HasRange(out) == ~IsNull(out.scoreBreakdown.inputs.electricRange)

\* the sum of the weights a breakdown reports as applied
AppliedSum(w) ==
    Add(Add(Add(Add(Add(w.costEfficiency, w.mileage), w.fuel), w.emissions), w.operating),
        w.evRange)

\* baseScore, recomputed from the components and the weights of a breakdown
BaseOf(out) ==
    BaseScore(out.scoreBreakdown.components, out.scoreBreakdown.weights,
              IF HasRange(out) THEN out.scoreBreakdown.inputs.electricRange ELSE Zero)

\* the five weights every record is given
FixedWeights(w) ==
    /\ w.costEfficiency = Frac(5, 10)
    /\ w.operating = Frac(2, 10)
    /\ w.mileage = Frac(15, 100)
    /\ w.emissions = Frac(1, 10)
    /\ w.fuel = Frac(5, 100)

-----------------------------------------------------------------------------
(* The insurance weight                                                    *)

\* the weight a run applies: the option the component passes, clamped
AppliedWeight == ClampWeight(Opts(useInsuranceWeight).insuranceWeight)

\* the insurance component of a group cell: its score, 50 when the group is
\* missing or outside 1..50
InsuranceComponent(n) ==
    IF Le(Num(1), n) /\ Le(n, Num(50))
    THEN Round1(Sub(Num(100), Mul(Div(Sub(n, Num(1)), Num(49)), Num(100))))
    ELSE Num(50)

\* base*(1 - w) + component*w, to one decimal; the base as it is at weight 0
Blended(base, component, w) ==
    IF w = Zero THEN base
    ELSE Round1(Add(Mul(base, Sub(Num(1), w)), Mul(component, w)))

\* a deal of the report of analyzeCsv
LexUploadBlends(deal) ==
    deal.score = Blended(Round1(BaseOf(deal)),
                         InsuranceComponent(parseNumber(deal.vehicle.insurance_group)),
                         AppliedWeight)

\* a deal of the response of the function, whose base score is what
\* calculateScore returns
HandlerBlends(deal) ==
    deal.score = Blended(calculateScore(deal.vehicle),
                         InsuranceComponent(parseNumeric(deal.vehicle.insurance_group)),
                         AppliedWeight)

\* C20: the weight applied lies within 0 and 0.2; at weight 0 the score of a
\* deal is its base score, whatever its insurance group; at a positive
\* weight w it is base*(1-w) + component*w to one decimal, the component
\* being 50 when the group is missing or outside 1..50; in the report of
\* analyzeCsv and in the response of the function.
C20_InsuranceBlend ==
    /\ Le(Zero, AppliedWeight) /\ Le(AppliedWeight, Frac(2, 10))
    /\ (runpc = "done" /\ ~IsNull(results)) =>
           \A i \in 1..Len(results.topDeals) : LexUploadBlends(results.topDeals[i])
    /\ (~IsNull(response) /\ response.statusCode = 200) =>
           \A i \in 1..Len(response.topDeals) :
               ~HandlerHardFailure(response.topDeals[i].vehicle)
                   => HandlerBlends(response.topDeals[i])

-----------------------------------------------------------------------------
(* The header threshold                                                    *)

\* how many of the seven essential keys the line resolves in LexUpload
EssentialResolved(candidateIdx) ==
    Cardinality({"manufacturer", "model", "monthly_cm", "monthly_wm", "p11d", "term", "mileage"}
                \cap DOMAIN candidateIdx)

\* a line LexUpload takes as the header: three essential keys, or the
\* manufacturer and the model
LexUploadAccepts(line) ==
    LET candidateIdx == buildColumnIndices(Candidate(line))
    IN  \/ EssentialResolved(candidateIdx) >= 3
        \/ {"manufacturer", "model"} \subseteq DOMAIN candidateIdx

\* a row the function takes as the header: five fields, the term and the
\* mileage among them
HandlerAccepts(jsonRow) ==
    LET resolved == DOMAIN TempIndices(HeaderTexts(jsonRow))
    IN  Cardinality(resolved) >= 5 /\ {"term", "mileage"} \subseteq resolved

HandlerFirstOverThreshold ==
    (~IsNull(response) /\ response.statusCode = 200) =>
        \E numeric \in BOOLEAN :
            LET jsonData == JsonData(sheet, numeric)
            IN  IF response.fallback
                THEN \A i \in 1..Len(jsonData) : ~HandlerAccepts(jsonData[i])
                ELSE /\ response.headerRowIndex + 1 \in 1..Len(jsonData)
                     /\ HandlerAccepts(jsonData[response.headerRowIndex + 1])
                     /\ \A i \in 1..response.headerRowIndex : ~HandlerAccepts(jsonData[i])

-----------------------------------------------------------------------------
(* The fallback table                                                      *)

\* the 0-based indices of the rows that give a vehicle when they are read
\* with the fallback table
FallbackRows(jsonData) ==
    {i \in 0..(Len(jsonData) - 1) :
        /\ Len(jsonData[i + 1]) # 0
        /\ HandlerKept(HandlerRowVehicle(jsonData[i + 1], FALLBACK_COLUMN_INDICES))}

\* C22: when no row meets the header threshold the function uses the
\* fallback table as it stands and reads every non-empty row of the file as
\* a data row, the first row included: every row that gives a vehicle is
\* counted
C22_FallbackReadsEveryRow ==
    ~IsNull(response) =>
        \E numeric \in BOOLEAN :
            LET jsonData == JsonData(sheet, numeric)
            IN  FindHeaderRow(jsonData, 0) = -1 =>
                    IF response.statusCode = 200
                    THEN /\ response.fallback
                         /\ response.columnMappings = FALLBACK_COLUMN_INDICES
                         /\ response.stats.totalVehicles = Cardinality(FallbackRows(jsonData))
                    ELSE FallbackRows(jsonData) = {}

\* the part of C22 that holds: the table is used as it stands and the rows
\* after headerRowIndex are read with it
C22_TableUnchanged ==
    (~IsNull(response) /\ response.statusCode = 200 /\ response.fallback) =>
        /\ response.columnMappings = FALLBACK_COLUMN_INDICES
        /\ response.headerRowIndex >= 2
        /\ \E numeric \in BOOLEAN :
               response.stats.totalVehicles =
                   Cardinality({i \in FallbackRows(JsonData(sheet, numeric)) :
                                   i > response.headerRowIndex})

-----------------------------------------------------------------------------
(* The rows the streamer delivers                                          *)

\* the fields of a line without quotes: the texts between its commas
RECURSIVE FieldsOf(_, _)
FieldsOf(line, from) ==
    IF \E i \in from..Len(line) : line[i] = COMMA
    THEN LET at == CHOOSE i \in from..Len(line) :
                       line[i] = COMMA /\ \A j \in from..(i - 1) : line[j] # COMMA
         IN  <<SubSeq(line, from, at - 1)>> \o FieldsOf(line, at + 1)
    ELSE <<SubSeq(line, from, Len(line))>>

\* where the last line of the text begins: after its last line terminator
LastLineStart(t) ==
    IF \E i \in 1..Len(t) : t[i] \in {LF, CR}
    THEN 1 + CHOOSE i \in 1..Len(t) : t[i] \in {LF, CR} /\ \A j \in (i + 1)..Len(t) : t[j] \notin {LF, CR}
    ELSE 1

\* how many lines of the text hold at least one character
FilledLines(t) ==
    Cardinality({i \in 1..Len(t) : t[i] \notin {LF, CR} /\ (i = 1 \/ t[i - 1] \in {LF, CR})})

\* the text ends in the middle of a line
EndsWithoutTerminator(t) == t # << >> /\ t[Len(t)] \notin {LF, CR}

\* what onRow has received is final once the promise has resolved: nothing
\* is left in row or field, and a text without quotes that ends in the
\* middle of a line has given one row for each of its filled lines, the
\* last of them the fields of its last line
DeliveredAtCompletion ==
    spc = "resolved" =>
        /\ row = << >> /\ field = << >>
        /\ (EndsWithoutTerminator(text) /\ \A i \in 1..Len(text) : text[i] # QUOTE) =>
              /\ Len(delivered) = FilledLines(text)
              /\ delivered[Len(delivered)] = FieldsOf(text, LastLineStart(text))

\* C23: streamCsvFile never delivers a row that is a single empty field;
\* the row pending at the end of a text that does not end with a line
\* terminator is delivered once, before the promise resolves; and no row is
\* delivered after that
C23_LastRowOnce ==
    /\ [](\A i \in 1..Len(delivered) : delivered[i] # << << >> >>)
    /\ []DeliveredAtCompletion
    /\ [][spc = "resolved" => delivered' = delivered]_vars

\* C23's case: the text a,a has been read in two chunks and its only row,
\* which no line terminator ends, has been delivered at the end of input
C23_Witness ==
    /\ text = <<"a", COMMA, "a">>
    /\ chunkSize = 2
    /\ spc = "resolved"
    /\ delivered = << << <<"a">>, <<"a">> >> >>

-----------------------------------------------------------------------------
(* The order of the streamer's steps                                       *)

\* A read that the FileReader has started ends, in onload or in onerror:
\* the step from "reading" that OnLoad or OnReadError takes
ReadEnds == spc = "reading" /\ spc' \in {"yielded", "resolved", "rejected"}

\* The timer of setTimeout(readNext, 0) fires, and every read the
\* FileReader starts ends
SpecStreamFair == SpecStream /\ WF_spc(ReadNext) /\ WF_spc(ReadEnds)

\* a chunk is processed in the step
ChunkProcessed == offset' # offset

\* Chunks are processed one at a time and in file order, a step that
\* processes a chunk never starts the next read, which is left to the timer,
\* and the promise is settled once, after the last chunk and the flush
ChunkByChunk ==
    /\ [](offset = chunkSize * Len(progress))
    /\ [][ChunkProcessed =>
              /\ spc = "reading" /\ spc' \in {"yielded", "resolved"}
              /\ offset' = offset + chunkSize
              /\ spc' = "resolved" <=> offset' >= Len(text)]_vars
    /\ [][(spc # "reading" /\ spc' = "reading") =>
              /\ spc = "yielded"
              /\ ~ChunkProcessed /\ delivered' = delivered]_vars
    /\ [](spc = "resolved" => offset >= Len(text) /\ row = << >> /\ field = << >>)
    /\ [][(spc \in {"resolved", "rejected"}) => UNCHANGED spc]_vars

\* C24 as claimed: the streamer yields between two chunks, processes the
\* chunks one at a time in file order, and the promise of every finite file
\* eventually resolves
C24_EventuallyResolves == ChunkByChunk /\ <>(spc = "resolved")

\* C24 as amended: the streamer yields between two chunks, processes the
\* chunks one at a time in file order, and the promise of every finite file
\* is eventually settled, once: resolved after the last chunk and the
\* flush, or rejected by a read that failed
C24_EventuallySettles == ChunkByChunk /\ <>(spc \in {"resolved", "rejected"})

\* C24's case: a text of three chunks has been read to its end, with a
\* yield after the first chunk and after the second
C24_Witness ==
    /\ Len(text) = 3
    /\ chunkSize = 1
    /\ Len(progress) = 3
    /\ spc = "resolved"

-----------------------------------------------------------------------------
(* The customer rental column                                              *)

\* C25: when the column map of analyzeCsv holds a customer rental column,
\* the monthly_payment of every vehicle it scores is the cell of that
\* column in the vehicle's line, never the cell of the wholesale column
C25_MonthlyFromCM ==
    (runpc \in {"streaming", "done"} /\ Has(locals.indices, "monthly_cm")) =>
        \A k \in 1..Len(scored) :
            \E i \in 1..cursor :
                /\ scored[k].vehicle = RowVehicle(sheet[i], locals.indices)
                /\ scored[k].vehicle.monthly_payment = Get(sheet[i], locals.indices, "monthly_cm")

\* the part of C25 that holds: the wholesale cell is used only for a line
\* whose customer rental cell is empty
C25_WholesaleOnlyForEmptyCM ==
    (runpc \in {"streaming", "done"} /\ Has(locals.indices, "monthly_cm")) =>
        \A k \in 1..Len(scored) :
            \E i \in 1..cursor :
                /\ scored[k].vehicle = RowVehicle(sheet[i], locals.indices)
                /\ \/ scored[k].vehicle.monthly_payment = Get(sheet[i], locals.indices, "monthly_cm")
                   \/ /\ Get(sheet[i], locals.indices, "monthly_cm") = << >>
                      /\ scored[k].vehicle.monthly_payment = Get(sheet[i], locals.indices, "monthly_wm")

-----------------------------------------------------------------------------
(* The order of the top deals                                              *)

\* C26: of two top deals whose scores differ by 1.0 or more, the one with
\* the higher score comes first
C26_HigherScoreFirst ==
    ~IsNull(results) =>
        \A i, j \in 1..Len(results.topDeals) :
            i < j => Lt(Sub(results.topDeals[j].score, results.topDeals[i].score), Num(1))

\* the part of C26 that holds: the order is by score wherever the comparator
\* is a consistent one for the deals retained
C26_ConsistentHeapsByScore ==
    (~IsNull(results) /\ Consistent(locals.minHeap)) =>
        \A i, j \in 1..Len(results.topDeals) :
            i < j => Lt(Sub(results.topDeals[j].score, results.topDeals[i].score), Num(1))

-----------------------------------------------------------------------------
(* The scores of the function's top deals                                  *)

\* C27: every top deal of the function's report carries the score it was
\* ranked by and counted with, so none of them is above stats.topScore
C27_SameScoreAsRanked ==
    (~IsNull(response) /\ response.statusCode = 200) =>
        \A k \in 1..Len(response.topDeals) :
            /\ k <= Len(response.allVehicles) => response.topDeals[k].score = response.allVehicles[k].s
            /\ Le(response.topDeals[k].score, response.stats.topScore)

-----------------------------------------------------------------------------
(* The validation of the field mapping                                      *)

\* The required fields of STANDARD_FIELDS
RequiredFields == {f \in DOMAIN STANDARD_FIELDS : STANDARD_FIELDS[f].required}

\* The required fields no column is mapped to
Unmapped(fieldMappings) == {f \in RequiredFields : fieldMappings[f] = NoIndex}

\* C28: validateMapping reports a required field as missing if and only if
\* no column is mapped to it, index 0 being a column like any other; and
\* with a column mapped to every required field no step reports 'Please map
\* required fields'
C28_IndexZeroPasses ==
    /\ [](upload.uploadState = "mapping" =>
              validateMapping(upload.fieldMappings) = Unmapped(upload.fieldMappings))
    /\ [][(/\ upload.uploadState = "mapping"
           /\ Unmapped(upload.fieldMappings) = {}
           /\ page.error # Message.missing) => page'.error # Message.missing]_vars

\* What does hold: validateMapping reports the unmapped required fields and
\* those mapped to the first column
C28_MissingOrFirstColumn ==
    upload.uploadState = "mapping" =>
        validateMapping(upload.fieldMappings) =
            {f \in RequiredFields : upload.fieldMappings[f] \in {NoIndex, <<0>>}}

-----------------------------------------------------------------------------
(* The end of the processing that handleProceed starts                      *)

\* A step in which processWithSupabase, awaited by handleProceed, rejects,
\* or resolves with results the page cannot process: either way handleError
\* is called
SupabaseFails == proceedpc # "none" /\ proceedpc' = "none"

\* The step in which it rejects
SupabaseRejects == SupabaseFails /\ page'.error \in {Message.supabase, Message.undefined}

\* A step in which the page's processing of the mapped file ends with
\* handleError instead of a report
FlexibleFileFails == flexpc # "none" /\ flexpc' = "none" /\ page'.analysisResults = "null"

\* C29: whenever the processing started by handleProceed ends in failure,
\* uploadState is 'mapping' again, so that the user can retry with the file
\* and the mapping at hand, and is not left at 'processing'
C29_FailureReturnsToMapping ==
    [][(SupabaseFails \/ FlexibleFileFails) => upload'.uploadState = "mapping"]_vars

\* What does hold: a rejection of processWithSupabase returns the instance
\* that awaits it, if still mounted, to 'mapping'
C29_MountedSupabaseFailure ==
    [][(SupabaseRejects /\ proceedpc = "mounted") => upload'.uploadState = "mapping"]_vars

\* and a failure of the page's own processing, or a rejection, leaves no
\* instance at 'processing'
C29_NotLeftProcessing ==
    [][(SupabaseRejects \/ FlexibleFileFails) => upload'.uploadState # "processing"]_vars

-----------------------------------------------------------------------------
(* What the page shows                                                      *)

\* C30: whatever handlers of the page have run, at most one of loading,
\* an error and analysisResults is set, so that the spinner, the error panel
\* and the results view are never shown together
C30_AtMostOneShown ==
    /\ ~(page.loading /\ ErrorShown(page))
    /\ ~(page.loading /\ page.analysisResults # "null")
    /\ ~(ErrorShown(page) /\ page.analysisResults # "null")

====
